---- MODULE Spec2Model ----
(***************************************************************************)
(* A model of media-proxy: the signed /media and /metadata handlers, the   *)
(* three cache tiers behind GetCachedOrFetch, the origin loader and the    *)
(* media engine.                                                           *)
(*                                                                         *)
(* Strings and byte slices are sequences.  A string is written as the      *)
(* sequence of its tokens ("image/", "webp", "?", "&", "=", ...); the      *)
(* token set is chosen so that no token is a concatenation of other        *)
(* tokens and every string is written in one way only, so two strings are  *)
(* equal exactly when their token sequences are.  The length of a string   *)
(* is its number of tokens.                                                *)
(***************************************************************************)
EXTENDS Integers, Sequences, FiniteSets, TLC

\* ------------------------------------------------------------------------
\* strings package
\* ------------------------------------------------------------------------

\* strings.HasPrefix
HasPrefix(s, prefix) ==
    Len(s) >= Len(prefix) /\ SubSeq(s, 1, Len(prefix)) = prefix

\* strings.TrimSuffix
TrimSuffix(s, suffix) ==
    IF Len(s) >= Len(suffix) /\ SubSeq(s, Len(s) - Len(suffix) + 1, Len(s)) = suffix
    THEN SubSeq(s, 1, Len(s) - Len(suffix))
    ELSE s

\* strings.TrimSpace
RECURSIVE TrimSpace(_)
TrimSpace(s) ==
    IF s = <<>> THEN s
    ELSE IF s[1] = " " THEN TrimSpace(Tail(s))
    ELSE IF s[Len(s)] = " " THEN TrimSpace(SubSeq(s, 1, Len(s) - 1))
    ELSE s

\* strings.Split(s, sep) for a one-token separator: n separators give n+1
\* entries, empty entries included
RECURSIVE Split(_, _)
Split(s, sep) ==
    IF \A i \in 1..Len(s) : s[i] # sep THEN <<s>>
    ELSE LET i == CHOOSE k \in 1..Len(s) : s[k] = sep /\ \A j \in 1..(k - 1) : s[j] # sep
         IN  <<SubSeq(s, 1, i - 1)>> \o Split(SubSeq(s, i + 1, Len(s)), sep)

\* strconv.Itoa for n >= 0
RECURSIVE Itoa(_)
Itoa(n) ==
    LET digit == <<"0", "1", "2", "3", "4", "5", "6", "7", "8", "9">>
    IN  IF n < 10 THEN <<digit[n + 1]>> ELSE Itoa(n \div 10) \o <<digit[(n % 10) + 1]>>

\* ------------------------------------------------------------------------
\* content types
\* ------------------------------------------------------------------------
ctWebp == <<"image/", "webp">>
ctJpeg == <<"image/", "jpeg">>
ctPng == <<"image/", "png">>
ctAvif == <<"image/", "avif">>
ctApng == <<"image/", "apng">>
ctSvg == <<"image/", "svg+xml">>
ctJson == <<"application/json">>
ctTextXml == <<"text/xml; charset=utf-8">>
ctTextPlain == <<"text/plain; charset=utf-8">>
ctOctetStream == <<"application/octet-stream">>

\* http.DetectContentType: decided by the leading magic of the data; empty
\* data sniffs as text/plain, unrecognised binary data as octet-stream
DetectContentType(data) ==
    IF data = <<>> THEN ctTextPlain
    ELSE CASE data[1] = "PNG" -> ctPng
           [] data[1] = "JFIF" -> ctJpeg
           [] data[1] = "WEBP" -> ctWebp
           [] data[1] = "<?xml" -> ctTextXml
           [] data[1] = "text" -> ctTextPlain
           [] OTHER -> ctOctetStream

\* getContentType: the sniffed type, text/xml and text/plain taken for SVG
getContentType(imageBytes) ==
    LET contentType == DetectContentType(imageBytes)
    IN  IF contentType = ctTextXml \/ contentType = ctTextPlain THEN ctSvg
        ELSE contentType

\* ------------------------------------------------------------------------
\* signatures
\* ------------------------------------------------------------------------

\* crypto/hmac with SHA-1: an injective function of the key and the message
HmacSha1(key, message) == [key |-> key, msg |-> message]

\* base64.URLEncoding.EncodeToString: injective, padding kept
Base64URLEncode(digest) == [b64 |-> digest]

\* (*server).validateSignature, for a server configured with `secret`
validateSignature(secret, signature, imagePath) ==
    LET expectedHash == Base64URLEncode(HmacSha1(secret, imagePath))
    IN  expectedHash = signature

\* the string getRequestInfo hands to validateSignature
CanonicalPath(requestType, mediaPath, rawQuery) ==
    LET mp == requestType \o <<"/">> \o mediaPath
    IN  IF rawQuery # <<>> THEN mp \o <<"?">> \o rawQuery ELSE mp

\* Taskfile open-file: the HASH a client puts in front of TYPE/PATH, PATH
\* being the rest of the URL as the client writes it
OpenFileHash(secret, type, path) ==
    Base64URLEncode(HmacSha1(secret, type \o <<"/">> \o path))

\* the rest of the URL a client writes for a media path and a query
UrlTail(mediaPath, rawQuery) ==
    IF rawQuery # <<>> THEN mediaPath \o <<"?">> \o rawQuery ELSE mediaPath

\* ------------------------------------------------------------------------
\* query strings: net/url and gorilla/schema
\* ------------------------------------------------------------------------

\* one "key=value" piece of a raw query, cut at its first "="
QueryPair(piece) ==
    IF \E i \in 1..Len(piece) : piece[i] = "="
    THEN LET i == CHOOSE k \in 1..Len(piece) :
                      piece[k] = "=" /\ \A j \in 1..(k - 1) : piece[j] # "="
         IN  <<SubSeq(piece, 1, i - 1), SubSeq(piece, i + 1, Len(piece))>>
    ELSE <<piece, <<>>>>

\* the (key, value) pairs of a raw query in the order written; empty pieces
\* are skipped (url.ParseQuery)
QueryPairs(rawQuery) ==
    LET pieces == Split(rawQuery, "&")
        kept == SelectSeq(pieces, LAMBDA p : p # <<>>)
    IN  [i \in 1..Len(kept) |-> QueryPair(kept[i])]

\* r.URL.Query(): url.Values, each key with its values in the order written
Query(rawQuery) ==
    LET pairs == QueryPairs(rawQuery)
        keys == {pairs[i][1] : i \in 1..Len(pairs)}
        RECURSIVE valuesOf(_, _)
        valuesOf(k, i) ==
            IF i > Len(pairs) THEN <<>>
            ELSE (IF pairs[i][1] = k THEN <<pairs[i][2]>> ELSE <<>>) \o valuesOf(k, i + 1)
    IN  [k \in keys |-> valuesOf(k, 1)]

\* the query keys the model knows, in byte order (sort.Strings)
SortedKeys ==
    << <<"blurhash">>, <<"foo">>, <<"outputFormat">>, <<"potatowebp">>, <<"raw">>,
       <<"read.dpi">>, <<"read.page">>, <<"resize.crop">>, <<"resize.height">>,
       <<"resize.size">>, <<"resize.width">>, <<"thumbhash">> >>

\* url.Values.Encode: keys sorted, "k=v" joined by "&" (the tokens of the
\* model need no escaping)
Encode(values) ==
    LET RECURSIVE ofKey(_, _)
        ofKey(k, vs) ==
            IF vs = <<>> THEN <<>>
            ELSE << k \o <<"=">> \o Head(vs) >> \o ofKey(k, Tail(vs))
        RECURSIVE pieces(_)
        pieces(i) ==
            IF i > Len(SortedKeys) THEN <<>>
            ELSE (IF SortedKeys[i] \in DOMAIN values
                  THEN ofKey(SortedKeys[i], values[SortedKeys[i]]) ELSE <<>>)
                 \o pieces(i + 1)
        RECURSIVE join(_)
        join(ps) ==
            IF ps = <<>> THEN <<>>
            ELSE IF Len(ps) = 1 THEN ps[1]
            ELSE ps[1] \o <<"&">> \o join(Tail(ps))
    IN  join(pieces(1))

\* strconv.ParseInt on the decimal literals of the model
ParseInt(value) ==
    CASE value = <<"0">> -> [ok |-> TRUE, v |-> 0]
      [] value = <<"1">> -> [ok |-> TRUE, v |-> 1]
      [] value = <<"2">> -> [ok |-> TRUE, v |-> 2]
      [] value = <<"64">> -> [ok |-> TRUE, v |-> 64]
      [] value = <<"100">> -> [ok |-> TRUE, v |-> 100]
      [] value = <<"200">> -> [ok |-> TRUE, v |-> 200]
      [] value = <<"-100">> -> [ok |-> TRUE, v |-> -100]
      [] OTHER -> [ok |-> FALSE, v |-> 0]

\* gorilla/schema convertBool: "on", or whatever strconv.ParseBool takes
ParseBool(value) ==
    IF value \in {<<"on">>, <<"1">>, <<"t">>, <<"T">>, <<"TRUE">>, <<"true">>, <<"True">>}
    THEN [ok |-> TRUE, v |-> TRUE]
    ELSE IF value \in {<<"0">>, <<"f">>, <<"F">>, <<"FALSE">>, <<"false">>, <<"False">>}
    THEN [ok |-> TRUE, v |-> FALSE]
    ELSE [ok |-> FALSE, v |-> FALSE]

\* the `query` aliases of TransformOptions and of MetadataOptions, with the
\* kind of the field each names
TransformFields ==
    [k \in {<<"raw">>, <<"read.dpi">>, <<"read.page">>, <<"resize.width">>,
            <<"resize.height">>, <<"resize.crop">>, <<"resize.size">>,
            <<"outputFormat">>} |->
        CASE k = <<"raw">> -> "bool"
          [] k \in {<<"resize.crop">>, <<"resize.size">>, <<"outputFormat">>} -> "string"
          [] OTHER -> "int"]

MetadataFields ==
    [k \in {<<"read.dpi">>, <<"read.page">>, <<"thumbhash">>, <<"blurhash">>,
            <<"potatowebp">>} |->
        CASE k \in {<<"read.dpi">>, <<"read.page">>} -> "int"
          [] OTHER -> "bool"]

\* schema.Decoder.Decode of one key: the last value is converted; an empty
\* value leaves the field alone; a key that is no field, or a value that does
\* not convert, is an error
DecodeField(fields, values, k) ==
    LET val == values[k][Len(values[k])]
    IN  IF k \notin DOMAIN fields THEN [ok |-> FALSE, set |-> FALSE, v |-> 0]
        ELSE IF val = <<>> THEN [ok |-> TRUE, set |-> FALSE, v |-> 0]
        ELSE CASE fields[k] = "int" ->
                    [ok |-> ParseInt(val).ok, set |-> TRUE, v |-> ParseInt(val).v]
               [] fields[k] = "bool" ->
                    [ok |-> ParseBool(val).ok, set |-> TRUE, v |-> ParseBool(val).v]
               [] OTHER -> [ok |-> TRUE, set |-> TRUE, v |-> val]

\* the decoded value of field k, or its zero value
FieldOr(fields, values, k, zero) ==
    IF k \in DOMAIN values /\ DecodeField(fields, values, k).set
    THEN DecodeField(fields, values, k).v
    ELSE zero

\* parseTransformQuery: err, or the decoded TransformOptions.  Resize is a
\* pointer: it is allocated as soon as a resize.* key is decoded
parseTransformQuery(query) ==
    LET f == TransformFields
        resizeKeys == {<<"resize.width">>, <<"resize.height">>, <<"resize.crop">>,
                       <<"resize.size">>}
    IN  [err |-> \E k \in DOMAIN query : ~DecodeField(f, query, k).ok,
         Raw |-> FieldOr(f, query, <<"raw">>, FALSE),
         Read |-> [Dpi |-> FieldOr(f, query, <<"read.dpi">>, 0),
                   Page |-> FieldOr(f, query, <<"read.page">>, 0)],
         HasResize |-> (DOMAIN query \cap resizeKeys) # {},
         Resize |-> [Width |-> FieldOr(f, query, <<"resize.width">>, 0),
                     Height |-> FieldOr(f, query, <<"resize.height">>, 0),
                     Crop |-> FieldOr(f, query, <<"resize.crop">>, <<>>),
                     Size |-> FieldOr(f, query, <<"resize.size">>, <<>>)],
         OutputFormat |-> FieldOr(f, query, <<"outputFormat">>, <<>>)]

\* parseMetadataQuery: err, or the decoded MetadataOptions
parseMetadataQuery(query) ==
    LET f == MetadataFields
    IN  [err |-> \E k \in DOMAIN query : ~DecodeField(f, query, k).ok,
         Read |-> [Dpi |-> FieldOr(f, query, <<"read.dpi">>, 0),
                   Page |-> FieldOr(f, query, <<"read.page">>, 0)],
         ThumbHash |-> FieldOr(f, query, <<"thumbhash">>, FALSE),
         BlurHash |-> FieldOr(f, query, <<"blurhash">>, FALSE),
         PotatoWebp |-> FieldOr(f, query, <<"potatowebp">>, FALSE)]

\* ------------------------------------------------------------------------
\* output-format selection (handleTransformRequest, OutputFormat == "")
\* ------------------------------------------------------------------------

\* the loop over the comma-split Accept entries: the content type it leaves
RECURSIVE ScanAccept(_, _)
ScanAccept(acceptedContentTypes, contentType) ==
    IF acceptedContentTypes = <<>> THEN contentType
    ELSE LET acceptedContentType == Head(acceptedContentTypes)
         IN  IF acceptedContentType = ctAvif
             THEN ScanAccept(Tail(acceptedContentTypes), contentType)
             ELSE IF HasPrefix(acceptedContentType, <<"image/">>)
             THEN TrimSpace(acceptedContentType)
             ELSE ScanAccept(Tail(acceptedContentTypes), contentType)

\* the switch from the content type to params.OutputFormat
OutputFormatOf(contentType) ==
    CASE contentType = ctWebp -> <<"webp">>
      [] contentType = ctJpeg -> <<"jpeg">>
      [] contentType = ctPng -> <<"png">>
      [] contentType = ctAvif -> <<"avif">>
      [] contentType = ctApng -> <<"apng">>
      [] OTHER -> <<"png">>

\* the content type chosen for origin bytes and an Accept header
AutoContentType(imageBytes, accept) ==
    ScanAccept(Split(accept, ","), DetectContentType(imageBytes))

\* ------------------------------------------------------------------------
\* framing of (content type, data) in one blob
\* ------------------------------------------------------------------------

\* the four bytes of n, most significant first
PutUint32BigEndian(n) ==
    << (n \div 16777216) % 256, (n \div 65536) % 256, (n \div 256) % 256, n % 256 >>

\* binary.LittleEndian.PutUint32
PutUint32(n) ==
    << n % 256, (n \div 256) % 256, (n \div 65536) % 256, (n \div 16777216) % 256 >>

\* binary.LittleEndian.Uint32
Uint32(b) == b[1] + 256 * b[2] + 65536 * b[3] + 16777216 * b[4]

\* (uint32() of a length below 2^32 is the length)
concatenateContentTypeAndData(contentType, data) ==
    PutUint32(Len(contentType)) \o contentType \o data

\* getContentTypeAndData: the slice expressions panic when the blob is nil
\* or shorter than its length prefix says
getContentTypeAndData(concatenatedBytes) ==
    IF Len(concatenatedBytes) < 4
    THEN [panic |-> TRUE, contentType |-> <<>>, data |-> <<>>]
    ELSE LET size == Uint32(SubSeq(concatenatedBytes, 1, 4))
         IN  IF 4 + size > Len(concatenatedBytes)
             THEN [panic |-> TRUE, contentType |-> <<>>, data |-> <<>>]
             ELSE [panic |-> FALSE,
                   contentType |-> SubSeq(concatenatedBytes, 5, 4 + size),
                   data |-> SubSeq(concatenatedBytes, 5 + size, Len(concatenatedBytes))]

\* ------------------------------------------------------------------------
\* media engine
\* ------------------------------------------------------------------------

\* the images of the model: a magic, the dimensions, the pixels
ImageWidth(imageBytes) == IF imageBytes[2] = "1000x500" THEN 1000 ELSE 3

ImageHeight(imageBytes) == IF imageBytes[2] = "1000x500" THEN 500 ELSE 2

\* vips.LoadImageFromBuffer succeeds on the image formats, for a page the
\* (one-page) image has
LoadImageFromBuffer(imageBytes, read) ==
    /\ Len(imageBytes) >= 3
    /\ imageBytes[1] \in {"PNG", "JFIF", "WEBP"}
    /\ read.Page <= 1

parseVipsInteresting(interesting) ==
    interesting \in {<<"none">>, <<>>, <<"centre">>, <<"entropy">>, <<"attention">>,
                     <<"low">>, <<"high">>, <<"all">>, <<"last">>}

parseVipsSize(size) ==
    size \in {<<"both">>, <<>>, <<"up">>, <<"down">>, <<"force">>, <<"last">>}

\* Go's integer division, which truncates toward zero
Quo(a, b) ==
    LET abs(x) == IF x >= 0 THEN x ELSE -x
    IN  IF (a >= 0) = (b >= 0) THEN abs(a) \div abs(b) ELSE -(abs(a) \div abs(b))

\* a target size that scales the given dimension by the inverse ratio
ThumbnailTargetInverted(imageBytes, resize) ==
    LET width == IF resize.Width = 0
                 THEN Quo(resize.Height * ImageHeight(imageBytes), ImageWidth(imageBytes))
                 ELSE resize.Width
        height == IF resize.Height = 0
                  THEN Quo(width * ImageWidth(imageBytes), ImageHeight(imageBytes))
                  ELSE resize.Height
    IN  [width |-> width, height |-> height]

\* the target size handed to ThumbnailWithSize
ThumbnailTarget(imageBytes, resize) ==
    LET width == IF resize.Width = 0
                 THEN Quo(resize.Height * ImageWidth(imageBytes), ImageHeight(imageBytes))
                 ELSE resize.Width
        height == IF resize.Height = 0
                  THEN Quo(width * ImageHeight(imageBytes), ImageWidth(imageBytes))
                  ELSE resize.Height
    IN  [width |-> width, height |-> height]

\* encoders with a branch for apng
ExportersWithApng ==
    [f \in {<<"jpeg">>, <<"png">>, <<"avif">>, <<"webp">>, <<"apng">>} |->
        CASE f = <<"jpeg">> -> [magic |-> "JFIF", contentType |-> ctJpeg]
          [] f = <<"png">> -> [magic |-> "PNG", contentType |-> ctPng]
          [] f = <<"avif">> -> [magic |-> "AVIF", contentType |-> ctAvif]
          [] f = <<"apng">> -> [magic |-> "PNG", contentType |-> ctApng]
          [] OTHER -> [magic |-> "WEBP", contentType |-> ctWebp]]

\* the encoders of ProcessTransformRequest: output format -> (magic, type)
Exporters ==
    [f \in {<<"jpeg">>, <<"png">>, <<"avif">>, <<"webp">>} |->
        CASE f = <<"jpeg">> -> [magic |-> "JFIF", contentType |-> ctJpeg]
          [] f = <<"png">> -> [magic |-> "PNG", contentType |-> ctPng]
          [] f = <<"avif">> -> [magic |-> "AVIF", contentType |-> ctAvif]
          [] OTHER -> [magic |-> "WEBP", contentType |-> ctWebp]]

\* (*MediaProcessor).ProcessTransformRequest.  The encoded output is the
\* magic of the format followed by what was encoded: the source and the
\* operations applied to it
ProcessTransformRequest(imageBytes, params) ==
    LET failed == [err |-> TRUE, out |-> <<>>, contentType |-> <<>>]
        target == ThumbnailTarget(imageBytes, params.Resize)
        ops == (IF params.Read.Dpi > 0 THEN <<"dpi">> \o Itoa(params.Read.Dpi) ELSE <<>>)
               \o (IF params.HasResize
                   THEN <<"thumbnail">> \o Itoa(target.width) \o <<"x">>
                        \o Itoa(target.height) \o params.Resize.Crop
                        \o <<"/">> \o params.Resize.Size
                   ELSE <<>>)
    IN  IF params.Raw
        THEN [err |-> FALSE, out |-> imageBytes, contentType |-> getContentType(imageBytes)]
        ELSE IF ~LoadImageFromBuffer(imageBytes, params.Read) THEN failed
        ELSE IF params.HasResize
                /\ (\/ ~parseVipsInteresting(params.Resize.Crop)
                    \/ ~parseVipsSize(params.Resize.Size)
                    \/ target.width < 1 \/ target.height < 1)
        THEN failed
        ELSE IF params.OutputFormat \notin DOMAIN Exporters THEN failed
        ELSE [err |-> FALSE,
              out |-> <<Exporters[params.OutputFormat].magic>> \o imageBytes \o ops,
              contentType |-> Exporters[params.OutputFormat].contentType]

\* (*MediaProcessor).ProcessMetadataRequest: the JSON of MetadataResponse
ProcessMetadataRequest(imageBytes, params) ==
    IF ~LoadImageFromBuffer(imageBytes, params.Read)
    THEN [err |-> TRUE, out |-> <<>>]
    ELSE [err |-> FALSE,
          out |-> <<"{width:">> \o Itoa(ImageWidth(imageBytes))
                  \o <<",height:">> \o Itoa(ImageHeight(imageBytes))
                  \o <<",noOfPages:1,format:", imageBytes[1]>>
                  \o (IF params.BlurHash THEN <<",blurhash:">> \o imageBytes ELSE <<>>)
                  \o (IF params.ThumbHash THEN <<",thumbhash:">> \o imageBytes ELSE <<>>)
                  \o (IF params.PotatoWebp THEN <<",potatowebp:">> \o imageBytes ELSE <<>>)
                  \o <<"}">>]

\* ------------------------------------------------------------------------
\* caches
\* ------------------------------------------------------------------------

\* cache.Sha256Hash: injective on the keys
Sha256Hash(data) == [sha256 |-> data]

\* a cache that reports every key absent
GetNeverPresent(enabled, files, key) == [present |-> FALSE, data |-> <<>>]

\* a Get that reads the directory whatever the cache's kind
GetIgnoringKind(enabled, files, key) ==
    IF key \in DOMAIN files
    THEN [present |-> TRUE, data |-> files[key]]
    ELSE [present |-> FALSE, data |-> <<>>]

\* Cache.Exists of FsCache (enabled) or NoopCache
Exists(enabled, files, key) == enabled /\ key \in DOMAIN files

\* Cache.Get of FsCache (enabled) or NoopCache: present, and the file's bytes
Get(enabled, files, key) ==
    IF enabled /\ key \in DOMAIN files
    THEN [present |-> TRUE, data |-> files[key]]
    ELSE [present |-> FALSE, data |-> <<>>]

\* os.Create in FsCache.Put: the file exists afterwards and is empty
\* (O_TRUNC), whatever it held
Create(files, key) ==
    [k \in DOMAIN files \cup {key} |-> IF k = key THEN <<>> ELSE files[k]]

\* file.Write in FsCache.Put: the bytes go to the start of the file the
\* descriptor names; what another writer put beyond them stays
Write(files, key, data) ==
    [files EXCEPT ![key] = data \o SubSeq(@, Len(data) + 1, Len(@))]

\* Cache.Put of FsCache (os.Create, then file.Write) with no other access
\* to the file in between, or of NoopCache: the files afterwards
Put(enabled, files, key, data) ==
    IF enabled
    THEN Write(Create(files, key), key, data)
    ELSE files

\* ------------------------------------------------------------------------
\* the server
\* ------------------------------------------------------------------------

\* bounds of the model: the requests a run sends, and how many of them the
\* throttle lets run at once (CONCURRENCY)
MaxRequests == 2

Concurrency == 2

VARIABLES
    config,         \* ServerConfig and the cache switches, fixed at startup
    scope,          \* which requests the clients of this run send
    loaderCache,    \* files of <CACHE_DIR>/original
    metadataCache,  \* files of <CACHE_DIR>/metadata
    resultCache,    \* files of <CACHE_DIR>/result
    req,            \* request number -> the request and its handler's locals
    probe           \* input and result of a function applied on its own

vars == <<config, scope, loaderCache, metadataCache, resultCache, req, probe>>

\* a ParseConfig that returns every configuration
ParseConfigLenient(c) == TRUE

\* config.ParseConfig: a configuration it returns (it exits on an empty
\* secret unless unsafe is enabled)
ParseConfig(c) == c.EnableUnsafe \/ c.Secret # ""

Configs ==
    {c \in [EnableUnsafe : BOOLEAN, Secret : {"", "s"},
            EnableLoaderCache : BOOLEAN, EnableResultCache : BOOLEAN] : ParseConfig(c)}

\* media paths, origin contents and Accept headers of the model
catJpg == <<"cat.jpg">>

pngV1 == <<"PNG", "1000x500", "v1">>

jpegV2 == <<"JFIF", "1000x500", "v2">>

notAnImage == <<"GARBAGE">>

svgDocument == <<"<?xml", "svg", "v3">>

acceptWebpAvifAny == <<"image/", "webp", ",", "image/", "avif", ",", "*/*">>

acceptJpeg == <<"image/", "jpeg">>

acceptApng == <<"image/", "apng">>

badSignature == Base64URLEncode(HmacSha1("t", <<>>))

\* what the origin may hold when a GET reaches it, by scope
Contents(sc) ==
    CASE sc = "all" -> {pngV1, notAnImage}
      [] sc = "raw" -> {pngV1, notAnImage, svgDocument}
      [] sc = "disconnect" -> {pngV1}
      [] sc = "unsafe" -> {pngV1}
      [] sc = "pair" -> {pngV1}
      [] sc = "order" -> {pngV1}
      [] sc = "reorder" -> {pngV1}
      [] sc \in {"noop", "tiers"} -> {pngV1}
      [] sc = "apng" -> {pngV1, notAnImage}
      [] OTHER -> {pngV1, jpegV2}

\* a request as the router hands it to a handler
Request(kind, signature, mediaPath, rawQuery, accept) ==
    [kind |-> kind, signature |-> signature, mediaPath |-> mediaPath,
     rawQuery |-> rawQuery, accept |-> accept]

\* a request with the signature segment a client holding `secret` computes
\* for its URL
Signed(secret, kind, mediaPath, rawQuery, accept) ==
    Request(kind, OpenFileHash(secret, kind, UrlTail(mediaPath, rawQuery)),
            mediaPath, rawQuery, accept)

\* two transform queries, and two metadata queries, that hold the same
\* parameters in another order
widthThenFormat == <<"resize.width", "=", "200", "&", "outputFormat", "=", "png">>

formatThenWidth == <<"outputFormat", "=", "png", "&", "resize.width", "=", "200">>

thumbThenBlur == <<"thumbhash", "=", "true", "&", "blurhash", "=", "true">>

blurThenThumb == <<"blurhash", "=", "true", "&", "thumbhash", "=", "true">>

\* the requests clients send, by scope
Requests(sc, secret) ==
    CASE sc = "all" ->
         {Signed(secret, <<"media">>, catJpg, <<>>, acceptWebpAvifAny),
          Signed(secret, <<"media">>, catJpg, <<"resize.width", "=", "abc">>, acceptJpeg),
          Signed(secret, <<"media">>, catJpg, <<"resize.crop", "=", "bogus">>, acceptJpeg),
          Signed(secret, <<"metadata">>, catJpg, <<>>, <<>>),
          Signed(secret, <<"metadata">>, catJpg, <<"thumbhash", "=", "maybe">>, <<>>),
          Request(<<"media">>, badSignature, catJpg, <<>>, acceptJpeg),
          Request(<<"metadata">>, badSignature, catJpg, <<>>, <<>>)}
      [] sc = "auth" ->
         {Signed(secret, <<"media">>, catJpg, <<>>, acceptJpeg),
          Signed(secret, <<"metadata">>, catJpg, <<>>, <<>>),
          Request(<<"media">>, badSignature, catJpg, <<>>, acceptJpeg),
          Request(<<"metadata">>, badSignature, catJpg, <<>>, <<>>)}
      [] sc = "disconnect" ->
         {Signed(secret, <<"media">>, catJpg, <<>>, acceptJpeg),
          Signed(secret, <<"metadata">>, catJpg, <<>>, <<>>)}
      [] sc = "unsafe" ->
         {Request(<<"media">>, badSignature, catJpg, <<>>, acceptJpeg),
          Request(<<"media">>, badSignature, catJpg, <<"resize.width", "=", "abc">>, acceptJpeg),
          Request(<<"metadata">>, badSignature, catJpg, <<>>, <<>>),
          Signed("s", <<"media">>, catJpg, <<>>, acceptJpeg)}
      [] sc = "order" ->
         {Signed(secret, <<"media">>, catJpg, <<>>, acceptJpeg),
          Signed(secret, <<"media">>, catJpg, <<"resize.width", "=", "abc">>, acceptJpeg),
          Signed(secret, <<"metadata">>, catJpg, <<>>, <<>>),
          Request(<<"media">>, badSignature, catJpg, <<"resize.width", "=", "abc">>, acceptJpeg)}
      [] sc = "apng" ->
         {Signed(secret, <<"media">>, catJpg, <<>>, acceptApng),
          Signed(secret, <<"media">>, catJpg, <<"resize.width", "=", "200">>, acceptApng),
          Signed(secret, <<"media">>, catJpg, <<>>, acceptJpeg)}
      [] sc = "reorder" ->
         {Signed(secret, <<"media">>, catJpg, widthThenFormat, acceptJpeg),
          Signed(secret, <<"media">>, catJpg, formatThenWidth, acceptJpeg),
          Request(<<"media">>, OpenFileHash(secret, <<"media">>,
                                            UrlTail(catJpg, widthThenFormat)),
                  catJpg, formatThenWidth, acceptJpeg),
          Signed(secret, <<"metadata">>, catJpg, thumbThenBlur, <<>>),
          Signed(secret, <<"metadata">>, catJpg, blurThenThumb, <<>>)}
      [] sc \in {"noop", "tiers"} ->
         {Signed(secret, <<"media">>, catJpg, <<>>, acceptJpeg),
          Signed(secret, <<"metadata">>, catJpg, <<>>, <<>>)}
      [] sc = "raw" ->
         {Signed(secret, <<"media">>, catJpg, <<"raw", "=", "true">>, acceptWebpAvifAny),
          Signed(secret, <<"media">>, catJpg, <<"raw", "=", "true">>, acceptJpeg),
          Signed(secret, <<"metadata">>, catJpg, <<>>, <<>>)}
      [] OTHER ->
         {Signed(secret, <<"media">>, catJpg, <<>>, acceptWebpAvifAny),
          Signed(secret, <<"media">>, catJpg, <<>>, acceptJpeg),
          Signed(secret, <<"media">>, catJpg, <<"raw", "=", "true">>, acceptWebpAvifAny),
          Signed(secret, <<"metadata">>, catJpg, <<>>, <<>>)}

Slots == 1..(MaxRequests + 1)

\* how many requests a run sends, by scope
Limit(sc) == IF sc \in {"cache", "raw"} THEN MaxRequests + 1 ELSE MaxRequests

\* a slot no request has arrived in yet.  params is info.RequestParams once
\* getRequestInfo returned it.  err is the HTTP code of the error
\* the handler holds (0: none); status is the status answered (0: none yet,
\* or never when the handler panicked).  gets, fetched, engine, hit and
\* before record what happened: the origin GETs issued, whether one answered
\* 200, whether the engine ran, whether the result tier hit, and the
\* requests that were over when this one arrived.  cancelled: the client
\* has gone and r.Context() is done; cancelledAt: where the handler was then.
\* steps: what the handler has done so far, in order
Idle ==
    [pc |-> "idle", kind |-> <<>>, signature |-> badSignature, mediaPath |-> <<>>,
     rawQuery |-> <<>>, accept |-> <<>>, params |-> <<>>, imageBytes |-> <<>>,
     out |-> <<>>,
     err |-> 0, status |-> 0, panicked |-> FALSE, contentType |-> <<>>,
     cacheControl |-> <<>>, contentLength |-> <<>>, body |-> <<>>,
     gets |-> 0, fetched |-> FALSE, engine |-> FALSE, hit |-> FALSE, before |-> {},
     cancelled |-> FALSE, cancelledAt |-> "", steps |-> <<>>]

Started == {i \in Slots : req[i].pc # "idle"}

Done == {i \in Slots : req[i].pc = "done"}

InFlight == Started \ Done

InitServer(sc, cfgs) ==
    /\ config \in cfgs
    /\ scope = sc
    /\ loaderCache = << >>
    /\ metadataCache = << >>
    /\ resultCache = << >>
    /\ req = [i \in Slots |-> Idle]
    /\ probe = << >>

Init == InitServer("all", {c \in Configs : c.Secret = "s"})

\* getRequestInfo without its signature check
getRequestInfoUnchecked(cfg, r, requestType) ==
    LET requestParams == IF requestType = <<"media">>
                         THEN parseTransformQuery(Query(r.rawQuery))
                         ELSE parseMetadataQuery(Query(r.rawQuery))
    IN  [err |-> IF requestParams.err THEN 400 ELSE 0,
         MediaPath |-> TrimSuffix(r.mediaPath, <<"/">>),
         RequestParams |-> requestParams,
         steps |-> <<"decode">>]

\* getRequestInfo checking the signature whatever EnableUnsafe says
getRequestInfoAlwaysChecked(cfg, r, requestType) ==
    LET mp == CanonicalPath(requestType, r.mediaPath, r.rawQuery)
    IN  IF ~validateSignature(cfg.Secret, r.signature, mp)
        THEN [getRequestInfoUnchecked(cfg, r, requestType) EXCEPT
                 !.err = 403, !.steps = <<"signature">>]
        ELSE [getRequestInfoUnchecked(cfg, r, requestType) EXCEPT
                 !.steps = <<"signature", "decode">>]

\* getRequestInfo decoding the query before it checks the signature
getRequestInfoDecodeFirst(cfg, r, requestType) ==
    LET mp == CanonicalPath(requestType, r.mediaPath, r.rawQuery)
        requestParams == IF requestType = <<"media">>
                         THEN parseTransformQuery(Query(r.rawQuery))
                         ELSE parseMetadataQuery(Query(r.rawQuery))
        checked == ~cfg.EnableUnsafe /\ ~requestParams.err
    IN  [err |-> IF requestParams.err THEN 400
                 ELSE IF checked /\ ~validateSignature(cfg.Secret, r.signature, mp)
                 THEN 403 ELSE 0,
         MediaPath |-> TrimSuffix(r.mediaPath, <<"/">>),
         RequestParams |-> requestParams,
         steps |-> <<"decode">> \o (IF checked THEN <<"signature">> ELSE <<>>)]

\* getRequestInfo going on after a query that does not decode
getRequestInfoIgnoringDecodeError(cfg, r, requestType) ==
    LET mp == CanonicalPath(requestType, r.mediaPath, r.rawQuery)
        refused == ~cfg.EnableUnsafe /\ ~validateSignature(cfg.Secret, r.signature, mp)
    IN  [getRequestInfoUnchecked(cfg, r, requestType) EXCEPT
            !.err = IF refused THEN 403 ELSE 0,
            !.steps = (IF cfg.EnableUnsafe THEN <<>> ELSE <<"signature">>)
                      \o (IF refused THEN <<>> ELSE <<"decode">>)]

\* getRequestInfo: the error it returns as its HTTP code (0: none), the
\* trimmed MediaPath and the decoded RequestParams; steps: the signature
\* check when not in unsafe mode, then, unless it failed, the decoding
getRequestInfo(cfg, r, requestType) ==
    LET mp == CanonicalPath(requestType, r.mediaPath, r.rawQuery)
        requestParams == IF requestType = <<"media">>
                         THEN parseTransformQuery(Query(r.rawQuery))
                         ELSE parseMetadataQuery(Query(r.rawQuery))
        refused == ~cfg.EnableUnsafe /\ ~validateSignature(cfg.Secret, r.signature, mp)
    IN  [err |-> IF refused THEN 403
                 ELSE IF requestParams.err THEN 400 ELSE 0,
         MediaPath |-> TrimSuffix(r.mediaPath, <<"/">>),
         RequestParams |-> requestParams,
         steps |-> (IF cfg.EnableUnsafe THEN <<>> ELSE <<"signature">>)
                   \o (IF refused THEN <<>> ELSE <<"decode">>)]

\* handlers that keep their results in one tier
TierOfShared(kind) == "result"

\* the tier a handler gives GetCachedOrFetch for its result:
\* s.resultCache in handleTransformRequest, s.metadataCache in
\* handleMetadataRequest
TierOf(kind) == IF kind = <<"media">> THEN "result" ELSE "metadata"

\* a result key made of the query as the client wrote it
ResultKeyOfRawQuery(r) ==
    Sha256Hash(TrimSuffix(r.mediaPath, <<"/">>) \o <<"?">> \o r.rawQuery)

\* the key a handler gives GetCachedOrFetch for its result, hashed
ResultKey(r) ==
    Sha256Hash(TrimSuffix(r.mediaPath, <<"/">>) \o <<"?">> \o Encode(Query(r.rawQuery)))

\* a loader key that tells the endpoints apart
LoaderKeyPerKind(r) == Sha256Hash(r.kind \o <<"/">> \o TrimSuffix(r.mediaPath, <<"/">>))

\* the key getOriginalImage gives GetCachedOrFetch, hashed
LoaderKey(r) == Sha256Hash(TrimSuffix(r.mediaPath, <<"/">>))

\* a transform handler that sets no Cache-Control header
TransformResponseNoCacheControl(r) ==
    LET un == getContentTypeAndData(r.out)
    IN  IF un.panic THEN [r EXCEPT !.pc = "done", !.panicked = TRUE]
        ELSE IF r.err # 0
        THEN [r EXCEPT !.pc = "done", !.status = 500, !.contentType = ctTextPlain,
                       !.body = <<"err.Error()">>, !.steps = Append(@, "response")]
        ELSE [r EXCEPT !.pc = "done", !.status = 200, !.contentType = un.contentType,
                       !.contentLength = Itoa(Len(un.data)),
                       !.body = un.data, !.steps = Append(@, "response")]

\* the end of handleTransformRequest: the blob is unframed, then the error
\* is looked at.  A panic of the handler ends the connection unanswered
TransformResponse(r) ==
    LET un == getContentTypeAndData(r.out)
    IN  IF un.panic THEN [r EXCEPT !.pc = "done", !.panicked = TRUE]
        ELSE IF r.err # 0
        THEN [r EXCEPT !.pc = "done", !.status = 500, !.contentType = ctTextPlain,
                       !.body = <<"err.Error()">>, !.steps = Append(@, "response")]
        ELSE [r EXCEPT !.pc = "done", !.status = 200, !.contentType = un.contentType,
                       !.cacheControl = <<"public, max-age=31536000, immutable">>,
                       !.contentLength = Itoa(Len(un.data)),
                       !.body = un.data, !.steps = Append(@, "response")]

\* the end of handleMetadataRequest
MetadataResponse(r) ==
    IF r.err # 0
    THEN [r EXCEPT !.pc = "done", !.status = 500, !.contentType = ctTextPlain,
                   !.body = <<"err.Error()">>, !.steps = Append(@, "response")]
    ELSE [r EXCEPT !.pc = "done", !.status = 200, !.contentType = ctJson,
                   !.body = r.out, !.steps = Append(@, "response")]

\* a GetCachedOrFetch that, having found the entry, still goes to the loader
RespondAfterReload(r) ==
    IF r.hit /\ r.steps[Len(r.steps)] = "cacheGet"
    THEN [r EXCEPT !.pc = "loaderGet"]
    ELSE IF r.kind = <<"media">> THEN TransformResponse(r) ELSE MetadataResponse(r)

\* what follows GetCachedOrFetch in the handler of r
Respond(r) ==
    IF r.kind = <<"media">> THEN TransformResponse(r) ELSE MetadataResponse(r)

\* the handler's fetch function once it holds the origin bytes: for a
\* transform the output format is chosen when none was asked for, the engine
\* runs and its output is framed; for metadata the engine runs
Fetch(r) ==
    LET params == r.params
        resolved ==
            IF params.OutputFormat = <<>>
            THEN [params EXCEPT !.OutputFormat =
                      OutputFormatOf(AutoContentType(r.imageBytes, r.accept))]
            ELSE params
        res == ProcessTransformRequest(r.imageBytes, resolved)
    IN  IF r.kind = <<"media">>
        THEN IF res.err THEN [err |-> TRUE, out |-> <<>>]
             ELSE [err |-> FALSE,
                   out |-> concatenateContentTypeAndData(res.contentType, res.out)]
        ELSE ProcessMetadataRequest(r.imageBytes, params)

\* the handler of r from the moment getOriginalImage returned the bytes up
\* to its next cache access: on an engine error GetCachedOrFetch returns
\* (nil, err) and the handler answers
AfterImage(r) ==
    LET res == Fetch(r)
    IN  IF res.err
        THEN Respond([r EXCEPT !.engine = TRUE, !.err = 500,
                               !.steps = Append(@, "engine")])
        ELSE [r EXCEPT !.engine = TRUE, !.pc = "cachePut", !.out = res.out,
                       !.steps = Append(@, "engine")]

\* a client sends the next request and the throttle admits it
Arrive ==
    \E i \in Slots : \E r \in Requests(scope, config.Secret) :
        /\ req[i].pc = "idle"
        /\ \A j \in 1..(i - 1) : req[j].pc # "idle"
        /\ i <= Limit(scope)
        /\ Cardinality(InFlight) < Concurrency
        /\ req' = [req EXCEPT ![i] =
                      [Idle EXCEPT !.pc = "start", !.kind = r.kind,
                                   !.signature = r.signature, !.mediaPath = r.mediaPath,
                                   !.rawQuery = r.rawQuery, !.accept = r.accept,
                                   !.before = Done]]
        /\ UNCHANGED <<config, scope, loaderCache, metadataCache, resultCache, probe>>

\* handleTransformRequest / handleMetadataRequest up to the first cache
\* access: getRequestInfo (on its error http.Error and return), then
\* GetCachedOrFetch's cache.Get on the result (metadata) cache
Start(i) ==
    /\ req[i].pc = "start"
    /\ LET r == req[i]
           info == getRequestInfo(config, r, r.kind)
           got == Get(config.EnableResultCache,
                      IF TierOf(r.kind) = "result" THEN resultCache ELSE metadataCache,
                      ResultKey(r))
       IN  req' = [req EXCEPT ![i] =
                      IF info.err # 0
                      THEN [r EXCEPT !.pc = "done", !.err = info.err, !.status = 500,
                                     !.contentType = ctTextPlain,
                                     !.body = <<"err.Error()">>,
                                     !.steps = info.steps \o <<"response">>]
                      ELSE IF got.present
                      THEN Respond([r EXCEPT !.params = info.RequestParams,
                                             !.out = got.data, !.hit = TRUE,
                                             !.steps = info.steps \o <<"cacheGet">>])
                      ELSE [r EXCEPT !.pc = "loaderGet", !.params = info.RequestParams,
                                     !.steps = info.steps \o <<"cacheGet">>]]
    /\ UNCHANGED <<config, scope, loaderCache, metadataCache, resultCache, probe>>

\* getOriginalImage: GetCachedOrFetch's cache.Get on the loader cache
LoaderGet(i) ==
    /\ req[i].pc = "loaderGet"
    /\ LET got == Get(config.EnableLoaderCache, loaderCache, LoaderKey(req[i]))
       IN  req' = [req EXCEPT ![i] =
                      IF got.present
                      THEN AfterImage([@ EXCEPT !.imageBytes = got.data,
                                                !.steps = Append(@, "loaderGet")])
                      ELSE [@ EXCEPT !.pc = "originFetch",
                                     !.steps = Append(@, "loaderGet")]]
    /\ UNCHANGED <<config, scope, loaderCache, metadataCache, resultCache, probe>>

\* a loader whose GET does not look at the request's context
OriginOutcomesIgnoringContext(r) == BOOLEAN

\* HTTPLoader.GetMedia: whether the GET can answer 200 (TRUE) or fail
\* (FALSE); with the request's context done client.Do returns its error
OriginOutcomes(r) == IF r.cancelled THEN {FALSE} ELSE BOOLEAN

\* HTTPLoader.GetMedia: the GET answers 200 with the bytes the origin holds
\* by then (the origin may change between two GETs), or it fails (another status, a network error, the request's
\* context cancelled) and the handler answers
OriginFetch(i) ==
    /\ req[i].pc = "originFetch"
    /\ \E ok \in OriginOutcomes(req[i]) : \E c \in Contents(scope) :
        req' = [req EXCEPT ![i] =
               IF ok
               THEN [@ EXCEPT !.pc = "loaderPut", !.gets = @ + 1,
                              !.fetched = TRUE, !.imageBytes = c,
                              !.steps = Append(@, "originGet")]
               ELSE Respond([@ EXCEPT !.gets = @ + 1, !.err = 500,
                                      !.steps = Append(@, "originGet")])]
    /\ UNCHANGED <<config, scope, loaderCache, metadataCache, resultCache, probe>>

\* getOriginalImage: GetCachedOrFetch's cache.Put on the loader cache, its
\* os.Create; NoopCache.Put does nothing and the engine follows
LoaderPut(i) ==
    /\ req[i].pc = "loaderPut"
    /\ IF config.EnableLoaderCache
       THEN /\ loaderCache' = Create(loaderCache, LoaderKey(req[i]))
            /\ req' = [req EXCEPT ![i].pc = "loaderWrite",
                                  ![i].steps = Append(@, "loaderPut")]
       ELSE /\ req' = [req EXCEPT ![i] =
                          AfterImage([@ EXCEPT !.steps = Append(@, "loaderPut")])]
            /\ UNCHANGED loaderCache
    /\ UNCHANGED <<config, scope, metadataCache, resultCache, probe>>

\* the file.Write of that Put, then the engine
LoaderWrite(i) ==
    /\ req[i].pc = "loaderWrite"
    /\ loaderCache' = Write(loaderCache, LoaderKey(req[i]), req[i].imageBytes)
    /\ req' = [req EXCEPT ![i] = AfterImage(@)]
    /\ UNCHANGED <<config, scope, metadataCache, resultCache, probe>>

\* GetCachedOrFetch's cache.Put on the result (metadata) cache, its
\* os.Create; NoopCache.Put does nothing and the response follows
CachePut(i) ==
    /\ req[i].pc = "cachePut"
    /\ IF config.EnableResultCache
       THEN /\ IF TierOf(req[i].kind) = "result"
               THEN /\ resultCache' = Create(resultCache, ResultKey(req[i]))
                    /\ UNCHANGED metadataCache
               ELSE /\ metadataCache' = Create(metadataCache, ResultKey(req[i]))
                    /\ UNCHANGED resultCache
            /\ req' = [req EXCEPT ![i].pc = "cacheWrite",
                                  ![i].steps = Append(@, "cachePut")]
       ELSE /\ req' = [req EXCEPT ![i] =
                          Respond([@ EXCEPT !.steps = Append(@, "cachePut")])]
            /\ UNCHANGED <<metadataCache, resultCache>>
    /\ UNCHANGED <<config, scope, loaderCache, probe>>

\* the file.Write of that Put, then the response
CacheWrite(i) ==
    /\ req[i].pc = "cacheWrite"
    /\ IF TierOf(req[i].kind) = "result"
       THEN /\ resultCache' = Write(resultCache, ResultKey(req[i]), req[i].out)
            /\ UNCHANGED metadataCache
       ELSE /\ metadataCache' = Write(metadataCache, ResultKey(req[i]), req[i].out)
            /\ UNCHANGED resultCache
    /\ req' = [req EXCEPT ![i] = Respond([@ EXCEPT !.steps = Append(@, "cacheWrite")])]
    /\ UNCHANGED <<config, scope, loaderCache, probe>>

Next ==
    \/ Arrive
    \/ \E i \in Slots :
        \/ Start(i)
        \/ LoaderGet(i)
        \/ OriginFetch(i)
        \/ LoaderPut(i)
        \/ LoaderWrite(i)
        \/ CachePut(i)
        \/ CacheWrite(i)

Spec == Init /\ [][Next]_vars

\* ------------------------------------------------------------------------
\* properties of the request path (Spec)
\* ------------------------------------------------------------------------

\* validateSignature accepts the signature the request carries
SignatureAccepted(r) ==
    validateSignature(config.Secret, r.signature,
                      CanonicalPath(r.kind, r.mediaPath, r.rawQuery))

\* clients with and without the secret, both cache tiers on disk (SpecAuth)
InitAuth ==
    InitServer("auth", {c \in Configs : /\ c.Secret = "s"
                                        /\ c.EnableLoaderCache
                                        /\ c.EnableResultCache})

SpecAuth == InitAuth /\ [][Next]_vars

\* C1: in safe mode the media engine is invoked for a request only if
\* validateSignature accepted the signature of that request
C1_EngineOnlyAfterSignature ==
    \A i \in Slots :
        (~config.EnableUnsafe /\ req[i].engine) => SignatureAccepted(req[i])

\* C1: a safe-mode request whose signature was accepted and whose handler ran
\* the engine
C1_Witness ==
    \E i \in Slots :
        /\ ~config.EnableUnsafe
        /\ req[i].engine
        /\ req[i].pc = "done"
        /\ SignatureAccepted(req[i])

\* C3 as stated: in safe mode a request whose signature does not validate is
\* answered 403, on /media and on /metadata
C3_BadSignatureAnswers403 ==
    \A i \in Slots :
        (/\ req[i].pc = "done"
         /\ ~config.EnableUnsafe
         /\ ~SignatureAccepted(req[i]))
        => req[i].status = 403

\* the query of r does not decode into the options of its endpoint
DecodeFails(r) ==
    IF r.kind = <<"media">>
    THEN parseTransformQuery(Query(r.rawQuery)).err
    ELSE parseMetadataQuery(Query(r.rawQuery)).err

\* C4 as stated: a request that passes the signature check (or runs in unsafe
\* mode) and whose query fails to decode is answered 400, on both endpoints
C4_DecodeFailureAnswers400 ==
    \A i \in Slots :
        (/\ req[i].pc = "done"
         /\ (config.EnableUnsafe \/ SignatureAccepted(req[i]))
         /\ DecodeFails(req[i]))
        => req[i].status = 400

\* the query of a transform request decodes, and asks for a crop, a size or
\* an output format the engine does not know
InvalidEngineOption(r) ==
    LET params == parseTransformQuery(Query(r.rawQuery))
    IN  /\ r.kind = <<"media">>
        /\ ~params.err
        /\ \/ ~parseVipsInteresting(params.Resize.Crop)
           \/ ~parseVipsSize(params.Resize.Size)
           \/ (params.OutputFormat # <<>> /\ params.OutputFormat \notin DOMAIN Exporters)

\* C5 as stated: a correctly signed transform request with an invalid
\* resize.crop, resize.size or outputFormat is answered 400
C5_InvalidOptionAnswers400 ==
    \A i \in Slots :
        (/\ req[i].pc = "done"
         /\ SignatureAccepted(req[i])
         /\ InvalidEngineOption(req[i]))
        => req[i].status = 400

\* C6 as stated: when the origin fetch fails or the engine returns an error,
\* the request is answered 500 with a short text body, on /media and on
\* /metadata
C6_FetchOrEngineFailureAnswers500 ==
    \A i \in Slots :
        (/\ req[i].pc = "done"
         /\ req[i].kind \in {<<"media">>, <<"metadata">>}
         /\ req[i].err = 500)
        => (req[i].status = 500 /\ req[i].body # <<>>)

\* C3: a safe-mode request with a signature that does not validate has been
\* answered, with status 500
C3_Witness ==
    \E i \in Slots :
        /\ req[i].pc = "done"
        /\ ~config.EnableUnsafe
        /\ ~SignatureAccepted(req[i])
        /\ req[i].status = 500

\* C4: a request whose query does not decode has been answered, with
\* status 500
C4_Witness ==
    \E i \in Slots :
        /\ req[i].pc = "done"
        /\ (config.EnableUnsafe \/ SignatureAccepted(req[i]))
        /\ DecodeFails(req[i])
        /\ req[i].status = 500

\* C5: a correctly signed transform request with resize.crop=bogus got the
\* origin bytes, the engine refused it, and the handler panicked on the nil
\* blob without answering
C5_Witness ==
    \E i \in Slots :
        /\ req[i].pc = "done"
        /\ SignatureAccepted(req[i])
        /\ InvalidEngineOption(req[i])
        /\ req[i].engine
        /\ req[i].panicked
        /\ req[i].status = 0

\* C6: a transform request whose origin GET failed ended in a panic of the
\* handler, unanswered, while a metadata request in the same case is
\* answered 500
C6_Witness ==
    \E i \in Slots :
        /\ req[i].pc = "done"
        /\ req[i].kind = <<"media">>
        /\ req[i].err = 500
        /\ ~req[i].fetched
        /\ req[i].panicked
        /\ req[i].status = 0

\* ------------------------------------------------------------------------
\* the caches over several requests (SpecCache): safe mode, result cache
\* enabled, correctly signed requests for one media path
\* ------------------------------------------------------------------------

InitCache ==
    InitServer("cache", {c \in Configs : /\ c.Secret = "s"
                                         /\ ~c.EnableUnsafe
                                         /\ c.EnableResultCache})

SpecCache == InitCache /\ [][Next]_vars

\* request a was over when request b arrived
Later(a, b) == a \in req[b].before

\* a and b are transform requests with the same (mediaPath, query)
SameTransform(a, b) ==
    /\ req[a].kind = <<"media">>
    /\ req[b].kind = <<"media">>
    /\ req[a].mediaPath = req[b].mediaPath
    /\ req[a].rawQuery = req[b].rawQuery

\* C7 as stated: with the result cache enabled, once a transform request for
\* a (mediaPath, query) has succeeded, every later transform request for the
\* same (mediaPath, query) that is answered 200 carries the same body
C7_LaterTransformSameBody ==
    \A a \in Slots : \A b \in Slots :
        (/\ config.EnableResultCache
         /\ Later(a, b)
         /\ SameTransform(a, b)
         /\ req[a].status = 200
         /\ req[b].pc = "done"
         /\ req[b].status = 200)
        => req[b].body = req[a].body

\* C7: a transform request hit the result cache after an earlier one with
\* the same (mediaPath, query) had succeeded, and was served other bytes
C7_Witness ==
    \E a \in Slots : \E b \in Slots :
        /\ config.EnableResultCache
        /\ Later(a, b)
        /\ SameTransform(a, b)
        /\ req[a].status = 200
        /\ req[b].status = 200
        /\ req[b].hit
        /\ req[b].body # req[a].body

\* the same configurations and requests, for runs of MaxRequests requests
InitPair ==
    InitServer("pair", {c \in Configs : /\ c.Secret = "s"
                                        /\ ~c.EnableUnsafe
                                        /\ c.EnableResultCache})

SpecPair == InitPair /\ [][Next]_vars

\* transform request t got the origin bytes of X by a GET of its own and
\* completed, and metadata request m for X arrived after that and completed
TransformThenMetadata(t, m) ==
    /\ config.EnableLoaderCache
    /\ config.EnableResultCache
    /\ req[t].kind = <<"media">>
    /\ req[m].kind = <<"metadata">>
    /\ req[t].mediaPath = req[m].mediaPath
    /\ req[t].fetched
    /\ Later(t, m)
    /\ req[m].pc = "done"

\* C8: with all caches enabled, a transform request for X that found no
\* entry and fetched X, followed after its completion by a metadata request
\* for X, makes one origin GET in total: the metadata request makes none
C8_OneOriginGet ==
    \A t \in Slots : \A m \in Slots :
        TransformThenMetadata(t, m) => (req[t].gets + req[m].gets = 1)

\* C8: such a pair of requests, the metadata request answered 200 from the
\* bytes the transform request stored
C8_Witness ==
    \E t \in Slots : \E m \in Slots :
        /\ TransformThenMetadata(t, m)
        /\ req[m].status = 200
        /\ ~req[m].hit
        /\ req[m].engine
        /\ req[m].imageBytes = req[t].imageBytes

\* every origin GET of the run returned a PNG image
OriginIsPng ==
    \A j \in Slots : req[j].fetched => DetectContentType(req[j].imageBytes) = ctPng

\* r is a transform request without outputFormat (and not asking for the
\* raw bytes) that carries Accept: image/webp,image/avif,*/*
AutoFormatRequest(r) ==
    /\ r.kind = <<"media">>
    /\ r.pc = "done"
    /\ r.status = 200
    /\ r.params.OutputFormat = <<>>
    /\ ~r.params.Raw
    /\ r.accept = acceptWebpAvifAny

\* C9 as stated: a transform request without outputFormat for a PNG origin
\* with Accept: image/webp,image/avif,*/* is answered with Content-Type
\* image/webp, whatever requests were served before it
C9_PngAcceptWebpAnswersWebp ==
    \A i \in Slots :
        (OriginIsPng /\ AutoFormatRequest(req[i])) => req[i].contentType = ctWebp

\* C9: such a request was answered from the result cache with the JPEG an
\* earlier request with Accept: image/jpeg had stored
C9_Witness ==
    \E i \in Slots :
        /\ OriginIsPng
        /\ AutoFormatRequest(req[i])
        /\ req[i].hit
        /\ req[i].contentType = ctJpeg

\* ------------------------------------------------------------------------
\* validateSignature on its own (SpecSig): a client signs one URL, the
\* server validates the signature on a request
\* ------------------------------------------------------------------------

Secrets == {"s", "t"}

Kinds == {<<"media">>, <<"metadata">>}

\* media paths; the last one has a "?" in it (written %3F in the URL)
MediaPaths == {catJpg, <<"dog.png">>, <<"cat.jpg", "?", "raw", "=", "true">>}

RawQueries == {<<>>, <<"raw", "=", "true">>, <<"resize.width", "=", "64">>}

\* a server secret, the URL a client signed with its secret, and the request
\* that carries the client's signature
SigProbes ==
    {[secret |-> s, clientSecret |-> cs, clientType |-> ct, clientPath |-> cp,
      clientQuery |-> cq, requestType |-> k, mediaPath |-> mp, rawQuery |-> q,
      signature |-> OpenFileHash(cs, ct, UrlTail(cp, cq)),
      accepted |-> FALSE, done |-> FALSE] :
        s \in Secrets, cs \in Secrets, ct \in Kinds, cp \in MediaPaths,
        cq \in RawQueries, k \in Kinds, mp \in MediaPaths, q \in RawQueries}

InitPure(sc, probes) ==
    /\ config = [EnableUnsafe |-> FALSE, Secret |-> "s",
                 EnableLoaderCache |-> TRUE, EnableResultCache |-> TRUE]
    /\ scope = sc
    /\ loaderCache = << >>
    /\ metadataCache = << >>
    /\ resultCache = << >>
    /\ req = [i \in Slots |-> Idle]
    /\ probe \in probes

InitSig == InitPure("sig", SigProbes)

\* getRequestInfo's call of validateSignature
Validate ==
    /\ scope = "sig"
    /\ ~probe.done
    /\ probe' = [probe EXCEPT
                    !.accepted = validateSignature(
                        probe.secret, probe.signature,
                        CanonicalPath(probe.requestType, probe.mediaPath, probe.rawQuery)),
                    !.done = TRUE]
    /\ UNCHANGED <<config, scope, loaderCache, metadataCache, resultCache, req>>

SpecSig == InitSig /\ [][Validate]_vars

\* C2 as stated: a signature is accepted when it was computed with the
\* server's secret for the kind, path and query of the request, and a
\* signature computed for a different secret, kind, path or query is rejected
C2_AcceptedExactlyForSameRequest ==
    probe.done =>
        (probe.accepted <=>
            /\ probe.clientSecret = probe.secret
            /\ probe.clientType = probe.requestType
            /\ probe.clientPath = probe.mediaPath
            /\ probe.clientQuery = probe.rawQuery)

\* C2: a signature computed for path cat.jpg and query raw=true is accepted
\* on a request for the path "cat.jpg?raw=true" without a query
C2_Witness ==
    /\ probe.done
    /\ probe.accepted
    /\ probe.clientPath = catJpg
    /\ probe.clientQuery = <<"raw", "=", "true">>
    /\ probe.mediaPath = <<"cat.jpg", "?", "raw", "=", "true">>
    /\ probe.rawQuery = <<>>

\* ------------------------------------------------------------------------
\* output-format selection on its own (SpecFormat)
\* ------------------------------------------------------------------------

\* the most entries an Accept header of the model has
MaxAcceptEntries == 2

AcceptEntries ==
    {<<"image/", "webp">>, <<"image/", "avif">>, <<"image/", "avif", " ">>,
     <<" ", "image/", "webp">>, <<"image/", "webp", ";q=0.8">>, <<"image/", "apng">>,
     <<"*/*">>, <<"text/html">>}

\* the Accept headers of n entries
RECURSIVE AcceptHeadersOf(_)
AcceptHeadersOf(n) ==
    IF n = 1 THEN AcceptEntries
    ELSE {h \o <<",">> \o e : h \in AcceptHeadersOf(n - 1), e \in AcceptEntries}

\* no Accept header, or one of up to MaxAcceptEntries entries
AcceptHeaders == {<<>>} \cup UNION {AcceptHeadersOf(n) : n \in 1..MaxAcceptEntries}

FormatProbes ==
    [imageBytes : {pngV1, jpegV2, notAnImage}, accept : AcceptHeaders,
     outputFormat : {<<>>}, done : {FALSE}]

InitFormat == InitPure("format", FormatProbes)

\* the fetch function of handleTransformRequest from DetectContentType to
\* the end of the switch, params.OutputFormat being empty
ResolveOutputFormat ==
    /\ scope = "format"
    /\ ~probe.done
    /\ probe' = [probe EXCEPT
                    !.outputFormat =
                        OutputFormatOf(AutoContentType(probe.imageBytes, probe.accept)),
                    !.done = TRUE]
    /\ UNCHANGED <<config, scope, loaderCache, metadataCache, resultCache, req>>

SpecFormat == InitFormat /\ [][ResolveOutputFormat]_vars

\* C10 as stated: AVIF is never chosen because of the Accept header: the
\* output format resolved is avif only when the sniffed type of the origin
\* bytes is image/avif
C10_AvifNeverFromAccept ==
    (probe.done /\ probe.outputFormat = <<"avif">>)
        => DetectContentType(probe.imageBytes) = ctAvif

\* C10: for a PNG origin and Accept "image/avif ,image/webp" the output
\* format resolved is avif
C10_Witness ==
    /\ probe.done
    /\ probe.imageBytes = pngV1
    /\ probe.accept = <<"image/", "avif", " ", ",", "image/", "webp">>
    /\ probe.outputFormat = <<"avif">>

\* ------------------------------------------------------------------------
\* the thumbnail target on its own (SpecResize)
\* ------------------------------------------------------------------------

\* a PNG of 3x2 pixels
pngSmall == <<"PNG", "3x2", "v1">>

\* the values resize.width and resize.height decode to
Dimensions ==
    {ParseInt(v).v : v \in {<<"-100">>, <<"0">>, <<"1">>, <<"2">>, <<"64">>,
                            <<"100">>, <<"200">>}}

ResizeProbes ==
    [imageBytes : {pngV1, pngSmall},
     resize : [Width : Dimensions, Height : Dimensions, Crop : {<<>>}, Size : {<<>>}],
     target : {[width |-> 0, height |-> 0]}, done : {FALSE}]

InitResize == InitPure("resize", ResizeProbes)

\* ProcessTransformRequest from `resize != nil` to the arguments of
\* ThumbnailWithSize
ComputeThumbnailTarget ==
    /\ scope = "resize"
    /\ ~probe.done
    /\ probe' = [probe EXCEPT
                    !.target = ThumbnailTarget(probe.imageBytes, probe.resize),
                    !.done = TRUE]
    /\ UNCHANGED <<config, scope, loaderCache, metadataCache, resultCache, req>>

SpecResize == InitResize /\ [][ComputeThumbnailTarget]_vars

\* q is a / b truncated toward zero, for b > 0
IsTruncatedQuotient(q, a, b) ==
    IF a >= 0 THEN q * b <= a /\ a < (q + 1) * b
    ELSE (q - 1) * b < a /\ a <= q * b

\* C11: when exactly one of resize width and height is zero, the engine's
\* thumbnail primitive gets the given dimension unchanged and, for the
\* missing one, other * src_missing / src_other truncated; a 1000x500 source
\* with (200, 0) or with (0, 100) gets the target (200, 100)
C11_MissingDimension ==
    LET w == probe.resize.Width
        h == probe.resize.Height
        sw == ImageWidth(probe.imageBytes)
        sh == ImageHeight(probe.imageBytes)
        t == probe.target
    IN  probe.done =>
            /\ (w = 0 /\ h # 0) => (t.height = h /\ IsTruncatedQuotient(t.width, h * sw, sh))
            /\ (w # 0 /\ h = 0) => (t.width = w /\ IsTruncatedQuotient(t.height, w * sh, sw))
            /\ (probe.imageBytes = pngV1 /\ w = 200 /\ h = 0)
                   => t = [width |-> 200, height |-> 100]
            /\ (probe.imageBytes = pngV1 /\ w = 0 /\ h = 100)
                   => t = [width |-> 200, height |-> 100]

\* C11: the target (200, 100) was computed for a 1000x500 source and
\* resize.width=200 without a height
C11_Witness ==
    /\ probe.done
    /\ probe.imageBytes = pngV1
    /\ probe.resize.Width = 200
    /\ probe.resize.Height = 0
    /\ probe.target = [width |-> 200, height |-> 100]

\* ------------------------------------------------------------------------
\* framing on its own (SpecFrame)
\* ------------------------------------------------------------------------

\* a string of n bytes
Bytes(n) == [i \in 1..n |-> "b"]

\* content types by length, around the carry of the length prefix's first
\* byte, and the content types of the server
FrameContentTypes ==
    {Bytes(n) : n \in {0, 1, 2, 255, 256, 257, 300}} \cup {ctWebp, ctSvg, ctJson}

\* payloads: none, engine output, origin bytes
FramePayloads ==
    {<<>>, <<"d">>, pngV1, notAnImage, <<"WEBP">> \o pngV1, Bytes(256)}

FrameProbes ==
    [contentType : FrameContentTypes, data : FramePayloads,
     framed : {<<>>}, unframed : {[panic |-> FALSE, contentType |-> <<>>, data |-> <<>>]},
     done : {FALSE}]

InitFrame == InitPure("frame", FrameProbes)

\* the fetch function frames the engine's output; the handler unframes what
\* GetCachedOrFetch returned
FrameAndUnframe ==
    /\ scope = "frame"
    /\ ~probe.done
    /\ LET framed == concatenateContentTypeAndData(probe.contentType, probe.data)
       IN  probe' = [probe EXCEPT !.framed = framed,
                                  !.unframed = getContentTypeAndData(framed),
                                  !.done = TRUE]
    /\ UNCHANGED <<config, scope, loaderCache, metadataCache, resultCache, req>>

SpecFrame == InitFrame /\ [][FrameAndUnframe]_vars

\* C12: unframing a framed (content type, data) gives both back without a
\* panic; the entry is 4 + len(ct) + len(data) long and its first four
\* bytes are len(ct), least significant byte first
C12_FramingRoundTrip ==
    probe.done =>
        /\ ~probe.unframed.panic
        /\ Len(probe.framed) = 4 + Len(probe.contentType) + Len(probe.data)
        /\ \A i \in 1..4 : probe.framed[i] \in 0..255
        /\ probe.framed[1] + 256 * probe.framed[2] + 65536 * probe.framed[3]
               + 16777216 * probe.framed[4] = Len(probe.contentType)
        /\ probe.unframed.contentType = probe.contentType
        /\ probe.unframed.data = probe.data

\* C12: a content type of 256 bytes, whose length needs the second byte of
\* the prefix, was framed with a payload and came back
C12_Witness ==
    /\ probe.done
    /\ Len(probe.contentType) = 256
    /\ probe.data = pngV1
    /\ probe.framed[1] = 0
    /\ probe.framed[2] = 1
    /\ probe.unframed.contentType = probe.contentType
    /\ probe.unframed.data = pngV1

\* ------------------------------------------------------------------------
\* raw=true (SpecRaw)
\* ------------------------------------------------------------------------

\* safe mode, every combination of the cache switches; the clients ask for
\* the untouched bytes of cat.jpg, and for its metadata
InitRaw == InitServer("raw", {c \in Configs : c.Secret = "s" /\ ~c.EnableUnsafe})

SpecRaw == InitRaw /\ [][Next]_vars

\* r is an answered transform request with raw=true that got past
\* getRequestInfo and whose origin GET, if it issued one, answered 200
RawServed(r) ==
    /\ r.pc = "done"
    /\ r.kind = <<"media">>
    /\ r.rawQuery = <<"raw", "=", "true">>
    /\ r.err = 0

\* C13 as stated: a raw=true transform request, on the miss and on every
\* later hit, is answered 200 with bytes the origin holds as the body and
\* their sniffed type (text/xml and text/plain taken for SVG) as the
\* Content-Type; bytes the engine cannot load are served too
C13_RawServesOriginBytes ==
    \A i \in Slots :
        RawServed(req[i]) =>
            /\ ~req[i].panicked
            /\ req[i].status = 200
            /\ req[i].body \in Contents(scope)
            /\ req[i].contentType = getContentType(req[i].body)

\* C13: a raw=true request hit the result cache after an earlier raw=true
\* request had been answered, and its handler panicked on the entry
C13_Witness ==
    \E i \in Slots :
        /\ RawServed(req[i])
        /\ req[i].hit
        /\ req[i].panicked
        /\ \E j \in req[i].before : RawServed(req[j]) /\ req[j].status = 200

\* ------------------------------------------------------------------------
\* the throttle in front of the handlers (SpecThrottle)
\* ------------------------------------------------------------------------

\* ThrottleOpts.BacklogLimit
BacklogLimit == 200

\* a throttle whose backlog has room for one request more
BacklogCapacityLoose(limit) == limit + BacklogLimit + 1

\* middleware.ThrottleWithOpts: the tokens it fills backlogTokens with
BacklogCapacity(limit) == limit + BacklogLimit

\* the tokens left in the channel tokens: every request in the handler
\* holds one
Tokens == Concurrency - probe.executing

\* the tokens left in the channel backlogTokens: every request between
\* taking one and its deferred return holds one
BacklogTokens ==
    BacklogCapacity(Concurrency) - probe.waiting - probe.executing - probe.leaving

\* waiting: requests holding a backlog token only; executing: requests in
\* next.ServeHTTP; leaving: requests that gave their token back, or were
\* answered 429 while waiting, and have yet to give the backlog token back;
\* arrival: the last arrival, whether it found the handlers and the backlog
\* full, and what became of it
InitThrottle ==
    InitPure("throttle", {[waiting |-> 0, executing |-> 0, leaving |-> 0,
                           arrival |-> [full |-> FALSE, outcome |-> "none"]]})

\* a request reaches the throttle: it takes a backlog token, or with none
\* left the select's default answers 429 (as does a context already done)
ThrottleArrive ==
    /\ scope = "throttle"
    /\ LET full == probe.executing = Concurrency /\ probe.waiting = BacklogLimit
       IN  \/ /\ BacklogTokens > 0
              /\ probe' = [probe EXCEPT !.waiting = @ + 1,
                                        !.arrival = [full |-> full, outcome |-> "backlog"]]
           \/ /\ BacklogTokens = 0
              /\ probe' = [probe EXCEPT !.arrival = [full |-> full, outcome |-> "429"]]
    /\ UNCHANGED <<config, scope, loaderCache, metadataCache, resultCache, req>>

\* a waiting request takes a token and enters next.ServeHTTP
ThrottleAdmit ==
    /\ scope = "throttle"
    /\ probe.waiting > 0
    /\ Tokens > 0
    /\ probe' = [probe EXCEPT !.waiting = @ - 1, !.executing = @ + 1]
    /\ UNCHANGED <<config, scope, loaderCache, metadataCache, resultCache, req>>

\* the backlog timer of a waiting request fires, or its context is done:
\* it is answered 429
ThrottleGiveUp ==
    /\ scope = "throttle"
    /\ probe.waiting > 0
    /\ probe' = [probe EXCEPT !.waiting = @ - 1, !.leaving = @ + 1]
    /\ UNCHANGED <<config, scope, loaderCache, metadataCache, resultCache, req>>

\* next.ServeHTTP returns (or panics): the deferred function gives the
\* token back
HandlerReturn ==
    /\ scope = "throttle"
    /\ probe.executing > 0
    /\ probe' = [probe EXCEPT !.executing = @ - 1, !.leaving = @ + 1]
    /\ UNCHANGED <<config, scope, loaderCache, metadataCache, resultCache, req>>

\* the outer deferred function gives the backlog token back
ThrottleLeave ==
    /\ scope = "throttle"
    /\ probe.leaving > 0
    /\ probe' = [probe EXCEPT !.leaving = @ - 1]
    /\ UNCHANGED <<config, scope, loaderCache, metadataCache, resultCache, req>>

NextThrottle ==
    \/ ThrottleArrive
    \/ ThrottleAdmit
    \/ ThrottleGiveUp
    \/ HandlerReturn
    \/ ThrottleLeave

SpecThrottle == InitThrottle /\ [][NextThrottle]_vars

\* C14: never more requests in the handlers than the configured
\* concurrency; while the handlers are full at most BacklogLimit further
\* requests wait, and never more than concurrency + BacklogLimit are
\* waiting or in a handler; a request that arrived when the handlers and
\* the backlog were full was answered 429 and did not enter the handler
C14_ThrottleBounds ==
    /\ probe.executing <= Concurrency
    /\ probe.executing = Concurrency => probe.waiting <= BacklogLimit
    /\ probe.waiting + probe.executing <= Concurrency + BacklogLimit
    /\ probe.arrival.full => probe.arrival.outcome = "429"

\* C14: with the handlers and the backlog full a request arrived and was
\* answered 429
C14_Witness ==
    /\ probe.executing = Concurrency
    /\ probe.waiting = BacklogLimit
    /\ probe.arrival = [full |-> TRUE, outcome |-> "429"]

\* ------------------------------------------------------------------------
\* concurrent identical requests (SpecCache)
\* ------------------------------------------------------------------------

\* i and j are requests for the same kind, mediaPath and query that ran at
\* the same time, both missed the result (metadata) cache, got the same
\* origin bytes and computed an entry to write
ConcurrentMisses(i, j) ==
    /\ i # j
    /\ req[i].kind = req[j].kind
    /\ req[i].mediaPath = req[j].mediaPath
    /\ req[i].rawQuery = req[j].rawQuery
    /\ i \notin req[j].before
    /\ j \notin req[i].before
    /\ \A k \in {i, j} :
          /\ req[k].pc \in {"cachePut", "cacheWrite", "done"}
          /\ req[k].engine
          /\ ~req[k].hit
          /\ req[k].err = 0
    /\ req[i].imageBytes = req[j].imageBytes

\* C15 as stated: two identical requests that run concurrently and both miss
\* write byte-identical entries, and their responses are the same
C15_ConcurrentWritesIdentical ==
    \A i, j \in Slots :
        ConcurrentMisses(i, j) =>
            /\ req[i].out = req[j].out
            /\ (req[i].pc = "done" /\ req[j].pc = "done")
                   => (req[i].body = req[j].body /\ req[i].contentType = req[j].contentType)

\* C15: two such requests were both answered 200, with different bodies
C15_Witness ==
    \E i, j \in Slots :
        /\ ConcurrentMisses(i, j)
        /\ req[i].status = 200
        /\ req[j].status = 200
        /\ req[i].body # req[j].body

\* ------------------------------------------------------------------------
\* GetCachedOrFetch on its own, with a file system that can fail (SpecFetch)
\* ------------------------------------------------------------------------

\* bound of the model: the calls of GetCachedOrFetch made one after another
\* with the same key
MaxCalls == 2

\* the key the handlers of /media/cat.jpg and /metadata/cat.jpg pass, and
\* the key of another entry
fetchKey == catJpg \o <<"?">>

otherKey == <<"dog.jpg", "?">>

\* what a handler's fetch function returns when it succeeds
FetchResults(kind) ==
    IF kind = <<"media">>
    THEN {concatenateContentTypeAndData(ctPng, pngV1),
          concatenateContentTypeAndData(ctJpeg, jpegV2)}
    ELSE {ProcessMetadataRequest(pngV1, parseMetadataQuery(<<>>)).out,
          ProcessMetadataRequest(jpegV2, parseMetadataQuery(<<>>)).out}

\* the cache directory when the first call is made
InitialFiles(kind) ==
    {<< >>}
    \cup {[k \in {Sha256Hash(fetchKey)} |-> v] : v \in FetchResults(kind) \cup {<<>>}}
    \cup {[k \in {Sha256Hash(otherKey)} |-> v] : v \in FetchResults(kind)}

\* what the file system does to a Put: "mkdir" and "create" are errors of
\* os.MkdirAll and os.Create; "write" is a file.Write that fails before
\* any byte, "short" one that stops before the last byte
PutFaults == {"none", "mkdir", "create", "write", "short"}

\* (*FsCache).Put under a fault: the error returned and the files afterwards
FsPut(files, key, data, fault) ==
    CASE fault \in {"mkdir", "create"} -> [err |-> TRUE, files |-> files]
      [] fault = "write" -> [err |-> FALSE, files |-> Create(files, key)]
      [] fault = "short" ->
            [err |-> FALSE,
             files |-> Write(Create(files, key), key, SubSeq(data, 1, Len(data) - 1))]
      [] OTHER -> [err |-> FALSE, files |-> Write(Create(files, key), key, data)]

\* the locals of a call before its first step
NewCall ==
    [pc |-> "get", getKey |-> <<>>, getErr |-> FALSE, present |-> FALSE, fetches |-> 0,
     fetchErr |-> FALSE, img |-> <<>>, puts |-> <<>>, putErr |-> FALSE,
     ret |-> [err |-> FALSE, data |-> <<>>],
     status |-> 0, panicked |-> FALSE, body |-> <<>>]

\* no call before this one
NoCall == [fetchErr |-> FALSE, start |-> << >>]

FetchProbes ==
    UNION {[enabled : BOOLEAN, kind : {kind}, files : InitialFiles(kind),
            start : {<< >>}, n : {0}, call : {NewCall}, prev : {NoCall}] :
           kind \in {<<"media">>, <<"metadata">>}}

InitFetch == InitPure("fetch", FetchProbes)

\* the handler's answer to what GetCachedOrFetch returned
Returned(kind, call, err, data) ==
    LET r == Respond([Idle EXCEPT !.kind = kind, !.out = data,
                                  !.err = IF err THEN 500 ELSE 0])
    IN  [call EXCEPT !.pc = "returned", !.ret = [err |-> err, data |-> data],
                     !.status = r.status, !.panicked = r.panicked, !.body = r.body]

\* a fetch whose error is taken for a result
AfterFetchIgnoringError(kind, call, err, img) ==
    [call EXCEPT !.pc = "put", !.fetches = @ + 1, !.fetchErr = err, !.img = img]

\* GetCachedOrFetch from fetch() to cache.Put: on an error of fetch it
\* returns (nil, error)
AfterFetch(kind, call, err, img) ==
    IF err
    THEN Returned(kind, [call EXCEPT !.fetches = @ + 1, !.fetchErr = TRUE], TRUE, <<>>)
    ELSE [call EXCEPT !.pc = "put", !.fetches = @ + 1, !.img = img]

\* a handler calls GetCachedOrFetch
FetchBegin ==
    /\ scope = "fetch"
    /\ probe.n < MaxCalls
    /\ probe.n = 0 \/ probe.call.pc = "returned"
    /\ probe' = [probe EXCEPT !.n = @ + 1, !.start = probe.files, !.call = NewCall,
                              !.prev = IF probe.n = 0 THEN NoCall
                                       ELSE [fetchErr |-> probe.call.fetchErr,
                                             start |-> probe.start]]
    /\ UNCHANGED <<config, scope, loaderCache, metadataCache, resultCache, req>>

\* cache.Get(keyHashed): os.Open may fail otherwise than with "not exist",
\* or io.ReadAll may fail; a present entry is returned
FetchGet ==
    /\ scope = "fetch"
    /\ probe.n > 0
    /\ probe.call.pc = "get"
    /\ LET got == Get(probe.enabled, probe.files, Sha256Hash(fetchKey))
       IN  \E fault \in (IF probe.enabled THEN BOOLEAN ELSE {FALSE}) :
               probe' = [probe EXCEPT !.call =
                   LET call == [@ EXCEPT !.getKey = Sha256Hash(fetchKey)]
                   IN  IF fault
                       THEN Returned(probe.kind, [call EXCEPT !.getErr = TRUE], TRUE, <<>>)
                       ELSE IF got.present
                       THEN Returned(probe.kind, [call EXCEPT !.present = TRUE],
                                     FALSE, got.data)
                       ELSE [call EXCEPT !.pc = "fetch"]]
    /\ UNCHANGED <<config, scope, loaderCache, metadataCache, resultCache, req>>

\* fetch(): the handler's function fails or returns bytes
FetchCall ==
    /\ scope = "fetch"
    /\ probe.call.pc = "fetch"
    /\ \/ probe' = [probe EXCEPT !.call = AfterFetch(probe.kind, @, TRUE, <<>>)]
       \/ \E img \in FetchResults(probe.kind) :
              probe' = [probe EXCEPT !.call = AfterFetch(probe.kind, @, FALSE, img)]
    /\ UNCHANGED <<config, scope, loaderCache, metadataCache, resultCache, req>>

\* cache.Put(keyHashed, img) and the return: NoopCache.Put returns nil
FetchPut ==
    /\ scope = "fetch"
    /\ probe.call.pc = "put"
    /\ \E fault \in (IF probe.enabled THEN PutFaults ELSE {"none"}) :
          LET keyHashed == Sha256Hash(fetchKey)
              put == IF probe.enabled
                     THEN FsPut(probe.files, keyHashed, probe.call.img, fault)
                     ELSE [err |-> FALSE, files |-> probe.files]
              call == [probe.call EXCEPT
                          !.puts = Append(@, [key |-> keyHashed, data |-> probe.call.img]),
                          !.putErr = put.err]
          IN  probe' = [probe EXCEPT
                           !.files = put.files,
                           !.call = IF put.err
                                    THEN Returned(probe.kind, call, TRUE, <<>>)
                                    ELSE Returned(probe.kind, call, FALSE, probe.call.img)]
    /\ UNCHANGED <<config, scope, loaderCache, metadataCache, resultCache, req>>

NextFetch ==
    \/ FetchBegin
    \/ FetchGet
    \/ FetchCall
    \/ FetchPut

SpecFetch == InitFetch /\ [][NextFetch]_vars

\* the entry of fetchKey is on disk when the call begins
PresentAtStart ==
    probe.enabled /\ Sha256Hash(fetchKey) \in DOMAIN probe.start

\* C17: a call that finds the key present returns the stored bytes without
\* invoking fetch or Put; a call that finds it absent invokes fetch exactly
\* once, Puts what fetch returned under the hashed key it gave to Get and
\* returns those bytes; an absent read is not an error
C17_GetCachedOrFetch ==
    LET c == probe.call
    IN  /\ probe.n > 0 => c.fetches <= 1
        /\ (probe.n > 0 /\ c.pc = "returned") =>
            /\ (PresentAtStart /\ ~c.getErr) =>
                   /\ c.fetches = 0
                   /\ c.puts = <<>>
                   /\ c.ret = [err |-> FALSE, data |-> probe.start[Sha256Hash(fetchKey)]]
                   /\ probe.files = probe.start
            /\ c.ret.err => (c.getErr \/ c.fetchErr \/ c.putErr)
            /\ (~PresentAtStart /\ ~c.getErr) =>
                   /\ c.fetches = 1
                   /\ ~c.fetchErr =>
                          /\ c.getKey = Sha256Hash(fetchKey)
                          /\ c.puts = <<[key |-> c.getKey, data |-> c.img]>>
                   /\ (~c.fetchErr /\ ~c.putErr) => c.ret = [err |-> FALSE, data |-> c.img]

\* C17: a second call returned, without fetching, the entry a first call
\* had fetched and Put
C17_Witness ==
    /\ probe.n = 2
    /\ probe.call.pc = "returned"
    /\ Sha256Hash(fetchKey) \notin DOMAIN probe.prev.start
    /\ PresentAtStart
    /\ probe.call.fetches = 0
    /\ probe.call.ret.data \in FetchResults(probe.kind)

\* C18: when fetch returns an error no Put happens, the files are as they
\* were and the call returns the error; the next call with the same key
\* finds the files as the failed call found them and invokes fetch again
C18_FetchErrorNotMemoized ==
    LET c == probe.call
    IN  /\ (probe.n > 0 /\ c.fetchErr) =>
               /\ c.puts = <<>>
               /\ probe.files = probe.start
               /\ c.pc = "returned"
               /\ c.ret.err
        /\ (probe.n > 1 /\ probe.prev.fetchErr) =>
               /\ probe.start = probe.prev.start
               /\ (c.pc \in {"put", "returned"} /\ ~c.getErr)
                      => (~c.present /\ c.fetches = 1)

\* C18: after a call whose fetch failed, the next call fetched again and
\* stored the result
C18_Witness ==
    /\ probe.n = 2
    /\ probe.prev.fetchErr
    /\ probe.call.pc = "returned"
    /\ probe.call.fetches = 1
    /\ ~probe.call.ret.err
    /\ probe.enabled
    /\ probe.files # probe.start

\* C16 as stated: when cache.Put fails after fetch succeeded, the client
\* is answered 200 with the computed result
C16_PutFailureStillServed ==
    LET c == probe.call
    IN  (probe.n > 0 /\ c.pc = "returned" /\ c.putErr) =>
            /\ ~c.panicked
            /\ c.status = 200
            /\ c.body = IF probe.kind = <<"media">>
                        THEN getContentTypeAndData(c.img).data
                        ELSE c.img

\* C16: the Put of a transform result failed and the handler panicked
C16_Witness ==
    /\ probe.n > 0
    /\ probe.call.pc = "returned"
    /\ probe.call.putErr
    /\ probe.call.img \in FetchResults(<<"media">>)
    /\ probe.kind = <<"media">>
    /\ probe.call.panicked

\* C19 as stated: after a Put on the filesystem cache that returned nil for
\* a non-empty payload, Get returns exactly that payload
C19_GetAfterPut ==
    LET c == probe.call
    IN  (/\ probe.n > 0
         /\ c.pc = "returned"
         /\ probe.enabled
         /\ c.puts # <<>>
         /\ ~c.putErr
         /\ c.img # <<>>)
        => Get(TRUE, probe.files, Sha256Hash(fetchKey)) = [present |-> TRUE, data |-> c.img]

\* C19: a Put returned nil for a non-empty payload, and the next call hit
\* an entry that is not that payload
C19_Witness ==
    /\ probe.n = 2
    /\ probe.call.pc = "returned"
    /\ probe.call.present
    /\ ~probe.call.ret.err
    /\ Sha256Hash(fetchKey) \notin DOMAIN probe.prev.start
    /\ probe.call.ret.data \notin FetchResults(probe.kind)

\* ------------------------------------------------------------------------
\* clients that go away (SpecDisconnect)
\* ------------------------------------------------------------------------

\* where a handler is, for a client that goes away: before the origin
\* round-trip, in it, holding the origin bytes with the engine yet to run,
\* or past the engine
Stage(pc) ==
    CASE pc \in {"start", "loaderGet"} -> "before"
      [] pc = "originFetch" -> "origin"
      [] pc \in {"loaderPut", "loaderWrite"} -> "engine"
      [] OTHER -> "after"

\* the client of request i closes the connection while the handler runs:
\* net/http cancels r.Context()
Disconnect(i) ==
    /\ req[i].pc \notin {"idle", "done"}
    /\ ~req[i].cancelled
    /\ req' = [req EXCEPT ![i].cancelled = TRUE, ![i].cancelledAt = Stage(req[i].pc)]
    /\ UNCHANGED <<config, scope, loaderCache, metadataCache, resultCache, probe>>

NextDisconnect ==
    \/ Next
    \/ \E i \in Slots : Disconnect(i)

\* safe mode, the result and metadata caches on disk, the loader cache on
\* or off
InitDisconnect ==
    InitServer("disconnect", {c \in Configs : /\ c.Secret = "s"
                                              /\ ~c.EnableUnsafe
                                              /\ c.EnableResultCache})

SpecDisconnect == InitDisconnect /\ [][NextDisconnect]_vars

\* the files of the tier that holds the results of r's kind
ResultFiles(r) == IF r.kind = <<"media">> THEN resultCache ELSE metadataCache

\* C20: a request whose client went away after the origin bytes were
\* obtained, and whose engine call succeeded, is carried through to the
\* write of its result, and a later identical request hits the cache; a
\* request whose client went away during the origin round-trip ends with
\* the loader's error, without engine call and without a cache write
C20_DisconnectedRequests ==
    \A i \in Slots :
        /\ (/\ req[i].pc = "done"
            /\ req[i].cancelledAt = "engine"
            /\ req[i].err = 0)
           => /\ req[i].engine
              /\ ResultKey(req[i]) \in DOMAIN ResultFiles(req[i])
              /\ \A j \in Slots :
                    (/\ i \in req[j].before
                     /\ req[j].kind = req[i].kind
                     /\ ResultKey(req[j]) = ResultKey(req[i])
                     /\ req[j].pc # "start")
                    => req[j].hit
        /\ req[i].cancelledAt = "origin"
           => /\ req[i].pc \in {"originFetch", "done"}
              /\ ~req[i].fetched
              /\ ~req[i].engine
              /\ req[i].pc = "done" => req[i].err = 500

\* C20: a request whose client went away before the engine ran was
\* finished, and a later identical request hit its entry
C20_Witness ==
    \E i, j \in Slots :
        /\ req[i].pc = "done"
        /\ req[i].cancelledAt = "engine"
        /\ req[i].engine
        /\ req[i].err = 0
        /\ i \in req[j].before
        /\ req[j].kind = req[i].kind
        /\ ResultKey(req[j]) = ResultKey(req[i])
        /\ req[j].hit
        /\ req[j].status = 200

\* ------------------------------------------------------------------------
\* process start (SpecStartup)
\* ------------------------------------------------------------------------

\* what flags, environment and .env files give the process: the switches
\* and the secret, whether the flag parser reports an error, and whether
\* that error is the help it printed
StartupProbes ==
    [config : [EnableUnsafe : BOOLEAN, Secret : {"", "s"},
               EnableLoaderCache : BOOLEAN, EnableResultCache : BOOLEAN],
     flagError : {"none", "help", "invalid"},
     pc : {"ParseConfig"}, exit : {-1}, created : {{}}, served : {FALSE}]

InitStartup == InitPure("startup", StartupProbes)

\* main's config.ParseConfig(nil): help printed by the flag parser exits 0;
\* another flag error is returned and main's log.Fatal exits 1; ParseConfig's
\* log.Fatal exits 1 for an empty secret without ENABLE_UNSAFE
MainParseConfig ==
    /\ scope = "startup"
    /\ probe.pc = "ParseConfig"
    /\ probe' =
          CASE probe.flagError = "help" -> [probe EXCEPT !.pc = "exited", !.exit = 0]
            [] probe.flagError = "invalid" -> [probe EXCEPT !.pc = "exited", !.exit = 1]
            [] ~ParseConfig(probe.config) -> [probe EXCEPT !.pc = "exited", !.exit = 1]
            [] OTHER -> [probe EXCEPT !.pc = "vips.Startup"]
    /\ UNCHANGED <<config, scope, loaderCache, metadataCache, resultCache, req>>

\* main: vips.Startup
MainVipsStartup ==
    /\ scope = "startup"
    /\ probe.pc = "vips.Startup"
    /\ probe' = [probe EXCEPT !.pc = "caches", !.created = @ \cup {"engine"}]
    /\ UNCHANGED <<config, scope, loaderCache, metadataCache, resultCache, req>>

\* main: the three caches, FsCache or NoopCache by the switches
MainCaches ==
    /\ scope = "startup"
    /\ probe.pc = "caches"
    /\ probe' = [probe EXCEPT !.pc = "NewServer", !.created = @ \cup {"caches"}]
    /\ UNCHANGED <<config, scope, loaderCache, metadataCache, resultCache, req>>

\* main: NewMediaProcessor, NewHTTPLoader, server.NewServer, server.Start
MainNewServer ==
    /\ scope = "startup"
    /\ probe.pc = "NewServer"
    /\ probe' = [probe EXCEPT !.pc = "serving", !.created = @ \cup {"server"}]
    /\ UNCHANGED <<config, scope, loaderCache, metadataCache, resultCache, req>>

\* the server answers a request
MainServe ==
    /\ scope = "startup"
    /\ probe.pc = "serving"
    /\ probe' = [probe EXCEPT !.served = TRUE]
    /\ UNCHANGED <<config, scope, loaderCache, metadataCache, resultCache, req>>

\* SIGINT or SIGTERM: server.Stop and main returns
MainStop ==
    /\ scope = "startup"
    /\ probe.pc = "serving"
    /\ probe' = [probe EXCEPT !.pc = "exited", !.exit = 0]
    /\ UNCHANGED <<config, scope, loaderCache, metadataCache, resultCache, req>>

NextStartup ==
    \/ MainParseConfig
    \/ MainVipsStartup
    \/ MainCaches
    \/ MainNewServer
    \/ MainServe
    \/ MainStop

SpecStartup == InitStartup /\ [][NextStartup]_vars

\* C21: with ENABLE_UNSAFE false and an empty secret the process never gets
\* past ParseConfig: no engine, cache or server is created and no request
\* is served; ParseConfig ends the process, with a non-zero exit code
\* unless the flag parser printed the help
C21_EmptySecretRefusesToStart ==
    (~probe.config.EnableUnsafe /\ probe.config.Secret = "") =>
        /\ probe.pc \in {"ParseConfig", "exited"}
        /\ probe.created = {}
        /\ ~probe.served
        /\ (probe.pc = "exited" /\ probe.flagError # "help") => probe.exit > 0

\* C21: a process started with valid flags, ENABLE_UNSAFE false and an empty
\* secret has exited with code 1
C21_Witness ==
    /\ ~probe.config.EnableUnsafe
    /\ probe.config.Secret = ""
    /\ probe.flagError = "none"
    /\ probe.pc = "exited"
    /\ probe.exit = 1

\* ------------------------------------------------------------------------
\* ENABLE_UNSAFE (SpecUnsafe)
\* ------------------------------------------------------------------------

\* unsafe mode with and without a secret, both cache tiers on disk; the
\* clients send signature segments the secret does not produce, and one it
\* does
InitUnsafe ==
    InitServer("unsafe", {c \in Configs : /\ c.EnableUnsafe
                                          /\ c.EnableLoaderCache
                                          /\ c.EnableResultCache})

SpecUnsafe == InitUnsafe /\ [][Next]_vars

\* C22: in unsafe mode, whatever the signature segment and the secret, no
\* request is refused for its signature: getRequestInfo goes on to decode
\* the query, fails only when decoding fails, and otherwise hands the
\* decoded parameters to the cache and engine pipeline
C22_UnsafeBypassesSignature ==
    \A i \in Slots :
        (config.EnableUnsafe /\ req[i].pc \notin {"idle", "start"}) =>
            /\ req[i].err # 403
            /\ DecodeFails(req[i]) => (req[i].err = 400 /\ req[i].pc = "done")
            /\ ~DecodeFails(req[i]) =>
                   /\ req[i].params = getRequestInfoUnchecked(config, req[i], req[i].kind).RequestParams
                   /\ \/ req[i].hit
                      \/ req[i].pc \in {"loaderGet", "originFetch", "loaderPut",
                                        "loaderWrite", "cachePut", "cacheWrite"}
                      \/ req[i].pc = "done" /\ (req[i].gets > 0 \/ req[i].engine)

\* C22: with an empty secret a request whose signature segment no secret of
\* the model produces for it ran the engine and was answered 200
C22_Witness ==
    \E i \in Slots :
        /\ config.EnableUnsafe
        /\ config.Secret = ""
        /\ req[i].signature = badSignature
        /\ ~SignatureAccepted(req[i])
        /\ req[i].engine
        /\ req[i].status = 200

\* ------------------------------------------------------------------------
\* query decoding on its own (SpecDecode)
\* ------------------------------------------------------------------------

\* queries made of fields of the option structures
KnownQueries(kind) ==
    IF kind = <<"media">>
    THEN {<<>>, <<"raw", "=", "true">>, <<"resize.width", "=", "100">>,
          <<"resize.width", "=", "100", "&", "resize.height", "=", "64">>,
          <<"outputFormat", "=", "webp">>, <<"read.page", "=", "1">>,
          <<"resize.width", "=", "abc">>}
    ELSE {<<>>, <<"thumbhash", "=", "true">>, <<"blurhash", "=", "true">>,
          <<"read.page", "=", "1">>, <<"read.dpi", "=", "64">>,
          <<"potatowebp", "=", "true">>, <<"thumbhash", "=", "maybe">>}

\* key=value pairs whose key is no field of either structure
UnknownPairs ==
    {<<"foo", "=", "bar">>, <<"utm_source", "=", "mail">>, <<"width", "=", "100">>,
     <<"v", "=", "2">>, <<"foo", "=">>, <<"foo">>, <<"t", "=", "1">>}

\* a known query with an unknown pair put after it or before it
WithUnknown(known, unknown, first) ==
    IF known = <<>> THEN unknown
    ELSE IF first THEN unknown \o <<"&">> \o known
    ELSE known \o <<"&">> \o unknown

\* parseQuery of getRequestInfo for the endpoint
parseQuery(kind, rawQuery) ==
    IF kind = <<"media">>
    THEN parseTransformQuery(Query(rawQuery))
    ELSE parseMetadataQuery(Query(rawQuery))

DecodeProbes ==
    UNION {[kind : {kind}, known : KnownQueries(kind), unknown : UnknownPairs,
            first : BOOLEAN, decoded : {<<>>}, decodedKnown : {<<>>}, done : {FALSE}] :
           kind \in {<<"media">>, <<"metadata">>}}

InitDecode == InitPure("decode", DecodeProbes)

\* the query with the unknown pair, and the same query without it, are
\* decoded
DecodeQueries ==
    /\ scope = "decode"
    /\ ~probe.done
    /\ probe' = [probe EXCEPT
                    !.decoded = parseQuery(probe.kind,
                                           WithUnknown(probe.known, probe.unknown,
                                                       probe.first)),
                    !.decodedKnown = parseQuery(probe.kind, probe.known),
                    !.done = TRUE]
    /\ UNCHANGED <<config, scope, loaderCache, metadataCache, resultCache, req>>

SpecDecode == InitDecode /\ [][DecodeQueries]_vars

\* C23 as stated: a key that is no field of the option structure has no
\* effect: the query decodes exactly as it does without that key, without
\* an error of its own
C23_UnknownKeyIgnored ==
    probe.done => probe.decoded = probe.decodedKnown

\* C23: resize.width=100&foo=bar fails to decode, resize.width=100 decodes
C23_Witness ==
    /\ probe.done
    /\ probe.kind = <<"media">>
    /\ probe.known = <<"resize.width", "=", "100">>
    /\ probe.unknown = <<"foo", "=", "bar">>
    /\ ~probe.first
    /\ ~probe.decodedKnown.err
    /\ probe.decodedKnown.Resize.Width = 100
    /\ probe.decoded.err

\* ------------------------------------------------------------------------
\* response headers (SpecAuth)
\* ------------------------------------------------------------------------

\* C24: a transform request answered 200 carries the content type and the
\* payload unframed from what GetCachedOrFetch returned, Cache-Control
\* "public, max-age=31536000, immutable" and the payload's length as
\* Content-Length; a metadata request answered 200 carries application/json
\* and the bytes GetCachedOrFetch returned; every other response has the
\* error text as a text/plain body and no Cache-Control
C24_ResponseHeaders ==
    \A i \in Slots :
        (req[i].pc = "done" /\ ~req[i].panicked) =>
            /\ req[i].status # 0
            /\ (req[i].status = 200 /\ req[i].kind = <<"media">>) =>
                   /\ ~getContentTypeAndData(req[i].out).panic
                   /\ req[i].contentType = getContentTypeAndData(req[i].out).contentType
                   /\ req[i].body = getContentTypeAndData(req[i].out).data
                   /\ req[i].cacheControl = <<"public, max-age=31536000, immutable">>
                   /\ req[i].contentLength = Itoa(Len(req[i].body))
            /\ (req[i].status = 200 /\ req[i].kind = <<"metadata">>) =>
                   /\ req[i].contentType = ctJson
                   /\ req[i].body = req[i].out
            /\ req[i].status # 200 =>
                   /\ req[i].err # 0
                   /\ req[i].contentType = ctTextPlain
                   /\ req[i].body = <<"err.Error()">>
                   /\ req[i].cacheControl = <<>>

\* C24: a transform request was answered 200 with its headers, and a
\* metadata request was answered with an error text
C24_Witness ==
    \E i, j \in Slots :
        /\ req[i].kind = <<"media">>
        /\ req[i].status = 200
        /\ req[i].body # <<>>
        /\ req[i].contentLength = Itoa(Len(req[i].body))
        /\ req[i].cacheControl # <<>>
        /\ req[j].kind = <<"metadata">>
        /\ req[j].pc = "done"
        /\ req[j].status = 500
        /\ req[j].body = <<"err.Error()">>

\* ---------------------------------------------------------------------
\* Order of the steps of one request: safe mode, both caches enabled;
\* among the requests one whose signature and whose query are both bad

InitOrder ==
    InitServer("order", {c \in Configs : /\ c.Secret = "s"
                                         /\ ~c.EnableUnsafe
                                         /\ c.EnableLoaderCache
                                         /\ c.EnableResultCache})

SpecOrder == InitOrder /\ [][Next]_vars

\* the steps of a handler that read a cache, ask the origin or run the engine
WorkSteps == {"cacheGet", "loaderGet", "originGet", "loaderPut", "engine",
              "cachePut", "cacheWrite"}

\* the places of step x in the steps st
StepsAt(st, x) == {k \in 1..Len(st) : st[k] = x}

\* every x of st comes before every y of st
Precedes(st, x, y) == \A j \in StepsAt(st, x), k \in StepsAt(st, y) : j < k

\* C25: within one request the signature check comes before the decoding of
\* the parameters (and a refused signature ends the request undecoded), the
\* decoding comes before every cache read, origin fetch and engine call
\* (none happens without it or after it failed), and the Put of the result
\* or metadata cache comes before the response, which is the last step
C25_StepOrder ==
    \A i \in Slots :
        LET r == req[i]
            st == r.steps
        IN  /\ (~config.EnableUnsafe /\ st # <<>>) => st[1] = "signature"
            /\ Precedes(st, "signature", "decode")
            /\ r.err = 403 => st = <<"signature", "response">>
            /\ (st # <<>> /\ r.signature = badSignature) => r.err = 403
            /\ \A w \in WorkSteps :
                   /\ Precedes(st, "decode", w)
                   /\ StepsAt(st, w) # {} => StepsAt(st, "decode") # {}
            /\ r.err = 400 => st \in {<<"signature", "decode", "response">>,
                                      <<"decode", "response">>}
            /\ Precedes(st, "cachePut", "response")
            /\ Precedes(st, "cacheWrite", "response")
            /\ StepsAt(st, "response") \subseteq {Len(st)}
            /\ (r.pc = "done" /\ r.status = 200 /\ ~r.hit) =>
                   /\ StepsAt(st, "cachePut") # {}
                   /\ StepsAt(st, "cacheWrite") # {}
                   /\ StepsAt(st, "response") # {}

\* C25: one request with a bad query was refused at its signature, and another went through
\* the signature check, the decoding, both caches, the origin, the engine
\* and the Put of its result before it was answered
C25_Witness ==
    \E i, j \in Slots :
        /\ req[i].pc = "done" /\ req[i].err = 403
        /\ req[i].rawQuery = <<"resize.width", "=", "abc">>
        /\ req[i].steps = <<"signature", "response">>
        /\ req[j].pc = "done" /\ req[j].status = 200
        /\ req[j].steps = <<"signature", "decode", "cacheGet", "loaderGet",
                            "originGet", "loaderPut", "engine", "cachePut",
                            "cacheWrite", "response">>

\* ---------------------------------------------------------------------
\* Cache entries over time (SpecCache)

\* the result keys of the given kind, and the loader keys, whose file a
\* request has created and not yet written
ResultKeysInPut(kind) ==
    {ResultKey(req[i]) : i \in {j \in Slots : req[j].pc = "cacheWrite" /\ req[j].kind = kind}}

LoaderKeysInPut == {LoaderKey(req[i]) : i \in {j \in Slots : req[j].pc = "loaderWrite"}}

\* every file of before that no Put is in the middle of is in after, with
\* the same bytes
EntriesKept(before, after, inPut) ==
    \A k \in DOMAIN before \ inPut : k \in DOMAIN after /\ after[k] = before[k]

\* C26 as stated: an entry that exists in a tier, no Put on its key being
\* under way, is neither changed nor removed by any step of any request
C26_EntriesNeverChange ==
    [][/\ EntriesKept(loaderCache, loaderCache', LoaderKeysInPut)
       /\ EntriesKept(resultCache, resultCache', ResultKeysInPut(<<"media">>))
       /\ EntriesKept(metadataCache, metadataCache', ResultKeysInPut(<<"metadata">>))]_vars

\* C26: a transform request stored its result and was answered 200, and the
\* entry it wrote is empty again, truncated by the Put of a concurrent
\* request for the same key
C26_Witness ==
    \E i, j \in Slots :
        /\ req[i].pc = "done" /\ req[i].kind = <<"media">>
        /\ req[i].status = 200 /\ ~req[i].hit
        /\ req[i].out # <<>>
        /\ req[j].pc = "cacheWrite" /\ req[j].kind = <<"media">>
        /\ ResultKey(req[j]) = ResultKey(req[i])
        /\ i \notin req[j].before
        /\ resultCache[ResultKey(req[i])] = <<>>

\* the blobs the requests of this run gave to a Put of the tier and key
\* that r reads its result from
PutBlobs(r) ==
    {req[j].out : j \in {k \in Slots : /\ req[k].kind = r.kind
                                       /\ ResultKey(req[k]) = ResultKey(r)
                                       /\ StepsAt(req[k].steps, "cachePut") # {}}}

\* C27 as stated: a Get that runs while a Put on the same key is under way
\* returns absent or the complete bytes of some Put: every request that hit
\* the result or metadata tier holds a blob some request gave to Put
C27_HitsAreCompleteEntries ==
    \A i \in Slots : req[i].hit => req[i].out \in PutBlobs(req[i])

\* C27: a request hit the entry of a concurrent request between that
\* request's os.Create and its Write, and got an empty blob
C27_Witness ==
    \E i, j \in Slots :
        /\ req[i].hit
        /\ req[i].out = <<>>
        /\ req[j].pc = "cacheWrite"
        /\ req[j].kind = req[i].kind
        /\ ResultKey(req[j]) = ResultKey(req[i])
        /\ req[j].out # <<>>

\* ------------------------------------------------------------------------
\* the engine on queries without a dimension (SpecZeroResize)
\* ------------------------------------------------------------------------

\* what a client may write for each resize key: nothing, or the key with a
\* value
ResizeKeyChoices ==
    [width : {<<>>, <<"resize.width", "=", "0">>, <<"resize.width", "=">>,
              <<"resize.width", "=", "200">>},
     height : {<<>>, <<"resize.height", "=", "0">>, <<"resize.height", "=", "64">>},
     crop : {<<>>, <<"resize.crop", "=", "centre">>, <<"resize.crop", "=">>},
     size : {<<>>, <<"resize.size", "=", "down">>}]

\* the raw query of the choices c, behind outputFormat=png
ResizeQuery(c) ==
    LET amp(pair) == IF pair = <<>> THEN <<>> ELSE <<"&">> \o pair
    IN  <<"outputFormat", "=", "png">> \o amp(c.width) \o amp(c.height)
            \o amp(c.crop) \o amp(c.size)

\* ProcessTransformRequest reaches its call of ThumbnailWithSize: the image
\* loaded, params.Resize is not nil, and crop and size parsed
ThumbnailCalled(imageBytes, params) ==
    /\ ~params.Raw
    /\ LoadImageFromBuffer(imageBytes, params.Read)
    /\ params.HasResize
    /\ parseVipsInteresting(params.Resize.Crop)
    /\ parseVipsSize(params.Resize.Size)

ZeroResizeProbes ==
    [imageBytes : {pngV1, pngSmall},
     rawQuery : {ResizeQuery(c) : c \in ResizeKeyChoices},
     params : {<<>>}, thumbnail : {FALSE},
     target : {[width |-> 0, height |-> 0]},
     res : {[err |-> FALSE, out |-> <<>>, contentType |-> <<>>]},
     done : {FALSE}]

InitZeroResize == InitPure("zeroresize", ZeroResizeProbes)

\* the query is decoded and the engine runs on the origin bytes
TransformQuery ==
    /\ scope = "zeroresize"
    /\ ~probe.done
    /\ LET params == parseTransformQuery(Query(probe.rawQuery))
       IN  probe' = [probe EXCEPT
                        !.params = params,
                        !.thumbnail = ThumbnailCalled(probe.imageBytes, params),
                        !.target = ThumbnailTarget(probe.imageBytes, params.Resize),
                        !.res = ProcessTransformRequest(probe.imageBytes, params),
                        !.done = TRUE]
    /\ UNCHANGED <<config, scope, loaderCache, metadataCache, resultCache, req>>

SpecZeroResize == InitZeroResize /\ [][TransformQuery]_vars

\* C28 as stated: when resize width and height are both zero, whatever other
\* resize keys the query has, the thumbnail primitive is not invoked
C28_ZeroDimensionsNoThumbnail ==
    (/\ probe.done
     /\ ~probe.params.err
     /\ probe.params.Resize.Width = 0
     /\ probe.params.Resize.Height = 0)
    => ~probe.thumbnail

\* C28: for outputFormat=png&resize.crop=centre the thumbnail primitive was
\* invoked with the target 0x0
C28_Witness ==
    /\ probe.done
    /\ probe.rawQuery = <<"outputFormat", "=", "png", "&", "resize.crop", "=", "centre">>
    /\ ~probe.params.err
    /\ probe.params.Resize.Width = 0
    /\ probe.params.Resize.Height = 0
    /\ probe.thumbnail
    /\ probe.target = [width |-> 0, height |-> 0]

\* ------------------------------------------------------------------------
\* disabled tiers (SpecNoop): every combination of the two cache switches,
\* over cache directories that are empty or hold the files an earlier run
\* with the caches enabled left there
\* ------------------------------------------------------------------------

\* the files of such an earlier run: the origin bytes, a PNG result and a
\* metadata document for cat.jpg
staleLoaderFiles == [k \in {Sha256Hash(catJpg)} |-> <<"PNG", "1000x500", "v0">>]

staleResultFiles ==
    [k \in {Sha256Hash(catJpg \o <<"?">>)} |->
        concatenateContentTypeAndData(ctPng, <<"PNG", "PNG", "1000x500", "v0">>)]

staleMetadataFiles == [k \in {Sha256Hash(catJpg \o <<"?">>)} |-> <<"{stale}">>]

InitNoop ==
    /\ config \in {c \in Configs : c.Secret = "s" /\ ~c.EnableUnsafe}
    /\ scope = "noop"
    /\ \/ /\ loaderCache = << >>
          /\ metadataCache = << >>
          /\ resultCache = << >>
       \/ /\ loaderCache = staleLoaderFiles
          /\ metadataCache = staleMetadataFiles
          /\ resultCache = staleResultFiles
    /\ req = [i \in Slots |-> Idle]
    /\ probe = << >>

SpecNoop == InitNoop /\ [][Next]_vars

\* r was accepted by getRequestInfo
Accepted(r) == StepsAt(r.steps, "decode") # {} /\ r.err \notin {400, 403}

\* C29: with the result cache disabled its Get and Exists find nothing and
\* its directories stay as they were, no request hits the result or
\* metadata tier, and every accepted request that is over invoked the
\* engine, unless its origin GET failed; with the loader cache disabled its
\* directory stays as it was and every request that missed the result tier
\* and is past the loader issued an origin GET
C29_NoopCache ==
    /\ ~config.EnableResultCache =>
           /\ resultCache \in {<< >>, staleResultFiles}
           /\ metadataCache \in {<< >>, staleMetadataFiles}
           /\ \A i \in Slots :
                  LET r == req[i]
                  IN  /\ ~Exists(config.EnableResultCache, ResultFiles(r), ResultKey(r))
                      /\ ~Get(config.EnableResultCache, ResultFiles(r), ResultKey(r)).present
                      /\ ~r.hit
                      /\ (r.pc = "done" /\ Accepted(r))
                             => (r.engine \/ (r.gets = 1 /\ ~r.fetched))
    /\ ~config.EnableLoaderCache =>
           /\ loaderCache \in {<< >>, staleLoaderFiles}
           /\ \A i \in Slots :
                  LET r == req[i]
                  IN  /\ ~Exists(config.EnableLoaderCache, loaderCache, LoaderKey(r))
                      /\ ~Get(config.EnableLoaderCache, loaderCache, LoaderKey(r)).present
                      /\ (/\ StepsAt(r.steps, "loaderGet") # {}
                          /\ r.pc \in {"loaderPut", "cachePut", "done"})
                             => r.gets = 1

\* C29: with both caches disabled and files of an earlier run in the
\* directories, a transform request was answered after another identical one
\* was over, and both issued an origin GET and invoked the engine
C29_Witness ==
    \E i, j \in Slots :
        /\ ~config.EnableResultCache
        /\ ~config.EnableLoaderCache
        /\ resultCache = staleResultFiles
        /\ ResultKey(req[i]) \in DOMAIN resultCache
        /\ LoaderKey(req[i]) \in DOMAIN loaderCache
        /\ i \in req[j].before
        /\ \A k \in {i, j} :
               /\ req[k].kind = <<"media">>
               /\ req[k].pc = "done" /\ req[k].status = 200
               /\ req[k].engine /\ req[k].gets = 1 /\ ~req[k].hit

\* ------------------------------------------------------------------------
\* Accept: image/apng (SpecApng): safe mode, both caches enabled
\* ------------------------------------------------------------------------

InitApng ==
    InitServer("apng", {c \in Configs : /\ c.Secret = "s"
                                        /\ ~c.EnableUnsafe
                                        /\ c.EnableLoaderCache
                                        /\ c.EnableResultCache})

SpecApng == InitApng /\ [][Next]_vars

\* the error ProcessTransformRequest returns, by the text it starts with
\* ("": none)
TransformError(imageBytes, params) ==
    LET target == ThumbnailTarget(imageBytes, params.Resize)
    IN  IF params.Raw THEN ""
        ELSE IF ~LoadImageFromBuffer(imageBytes, params.Read) THEN "failed to load image"
        ELSE IF params.HasResize /\ ~parseVipsInteresting(params.Resize.Crop)
        THEN "invalid crop parameter"
        ELSE IF params.HasResize /\ ~parseVipsSize(params.Resize.Size)
        THEN "invalid size parameter"
        ELSE IF params.HasResize /\ (target.width < 1 \/ target.height < 1)
        THEN "failed to resize image"
        ELSE IF params.OutputFormat \notin DOMAIN Exporters THEN "invalid output format"
        ELSE ""

\* the fetch function of the transform request r ran up to the engine, no
\* outputFormat was asked for, and image/apng was selected from the Accept
\* header
ApngSelected(r) ==
    /\ r.kind = <<"media">>
    /\ r.engine
    /\ r.params.OutputFormat = <<>>
    /\ ~r.params.Raw
    /\ AutoContentType(r.imageBytes, r.accept) = ctApng

InitReorder ==
    InitServer("reorder", {c \in Configs : /\ c.Secret = "s"
                                           /\ ~c.EnableUnsafe
                                           /\ c.EnableLoaderCache
                                           /\ c.EnableResultCache})

SpecReorder == InitReorder /\ [][Next]_vars

\* a and b are arrived requests of the same kind and mediaPath whose queries
\* hold the same parameters, written in another order
Reordered(a, b) ==
    /\ a.pc # "idle" /\ b.pc # "idle"
    /\ a.kind = b.kind
    /\ a.mediaPath = b.mediaPath
    /\ a.rawQuery # b.rawQuery
    /\ Query(a.rawQuery) = Query(b.rawQuery)

\* the signature segment of r is the one computed over r's own URL
SignedAsReceived(r) ==
    r.signature = OpenFileHash(config.Secret, r.kind, UrlTail(r.mediaPath, r.rawQuery))

\* C31: requests of the same kind and mediaPath whose queries hold the same
\* parameters in another order have the same cache key, and one that arrives
\* after the other stored its result hits that entry; a request is refused
\* with the signature error exactly when its signature is not the one over
\* its own raw query: the signature of the other order is refused
C31_OrderFreeKeyExactSignature ==
    \A i, j \in Slots :
        /\ Reordered(req[i], req[j]) =>
               /\ ResultKey(req[i]) = ResultKey(req[j])
               /\ (/\ i \in req[j].before
                   /\ StepsAt(req[i].steps, "cacheWrite") # {}
                   /\ SignedAsReceived(req[j])
                   /\ req[j].steps # <<>>)
                  => req[j].hit
        /\ req[i].steps # <<>> => (req[i].err = 403 <=> ~SignedAsReceived(req[i]))
        /\ (/\ req[i].steps # <<>>
            /\ req[i].rawQuery = formatThenWidth
            /\ req[i].signature = OpenFileHash(config.Secret, req[i].kind,
                                               UrlTail(req[i].mediaPath, widthThenFormat)))
           => req[i].err = 403

\* C31: a transform request for resize.width=200&outputFormat=png stored its
\* result, and a later one for outputFormat=png&resize.width=200 was served
\* that entry
C31_Witness ==
    \E i, j \in Slots :
        /\ req[i].kind = <<"media">> /\ req[i].rawQuery = widthThenFormat
        /\ req[j].kind = <<"media">> /\ req[j].rawQuery = formatThenWidth
        /\ i \in req[j].before
        /\ req[i].status = 200 /\ ~req[i].hit
        /\ req[j].status = 200 /\ req[j].hit
        /\ req[j].body = req[i].body

\* ------------------------------------------------------------------------
\* the trailing slash of the media path (SpecSlash): one URL tail X is
\* requested as X and as X/, with the signature a client computed for one
\* of the two
\* ------------------------------------------------------------------------

\* HTTPLoader's base URL, and the URL GetMedia asks for
baseURL == <<"http://origin/">>

UpstreamURL(mediaPath) == baseURL \o mediaPath

\* URL tails the router's wildcard can hold
SlashPaths ==
    {<<>>, catJpg, <<"dir", "/", "cat.jpg">>, <<"cat.jpg", "/">>, <<"dir", "/">>}

SlashQueries == {<<>>, <<"raw", "=", "true">>, <<"read.page", "=", "1">>}

NoInfo == [err |-> 0, MediaPath |-> <<>>, resultKey |-> <<>>, loaderKey |-> <<>>,
           url |-> <<>>]

SlashProbes ==
    [kind : {<<"media">>, <<"metadata">>}, path : SlashPaths, rawQuery : SlashQueries,
     signedWithSlash : BOOLEAN, plain : {NoInfo}, slash : {NoInfo}, done : {FALSE}]

InitSlash == InitPure("slash", SlashProbes)

\* what a handler derives from a request: getRequestInfo's error and
\* MediaPath, the key of the result (metadata) cache, the key of the loader
\* cache and the URL asked of the origin
Derived(cfg, r) ==
    LET info == getRequestInfo(cfg, r, r.kind)
    IN  [err |-> info.err, MediaPath |-> info.MediaPath,
         resultKey |-> ResultKey(r), loaderKey |-> LoaderKey(r),
         url |-> UpstreamURL(info.MediaPath)]

\* the two requests reach their handlers
SlashRequests ==
    /\ scope = "slash"
    /\ ~probe.done
    /\ LET signedPath == IF probe.signedWithSlash THEN probe.path \o <<"/">>
                         ELSE probe.path
           signature == OpenFileHash(config.Secret, probe.kind,
                                     UrlTail(signedPath, probe.rawQuery))
           plain == Request(probe.kind, signature, probe.path, probe.rawQuery, <<>>)
           slash == Request(probe.kind, signature, probe.path \o <<"/">>,
                            probe.rawQuery, <<>>)
       IN  probe' = [probe EXCEPT !.plain = Derived(config, plain),
                                  !.slash = Derived(config, slash),
                                  !.done = TRUE]
    /\ UNCHANGED <<config, scope, loaderCache, metadataCache, resultCache, req>>

SpecSlash == InitSlash /\ [][SlashRequests]_vars

\* the requests for X and X/ have the same keys and origin URL, and each is
\* accepted exactly with the signature over its own path
SameKeysOwnSignature ==
    /\ probe.plain.resultKey = probe.slash.resultKey
    /\ probe.plain.loaderKey = probe.slash.loaderKey
    /\ probe.plain.url = probe.slash.url
    /\ probe.plain.MediaPath = probe.slash.MediaPath
    /\ (probe.plain.err = 403) <=> probe.signedWithSlash
    /\ (probe.slash.err = 403) <=> ~probe.signedWithSlash

\* X does not end with a slash
NoTrailingSlash(path) == path = <<>> \/ path[Len(path)] # "/"

\* C32 as stated: for every X, the requests for X and X/ with the same query
\* use the same loader key, result key and origin URL, each verified against
\* the signature over its path as received
C32_SlashAndPlainSameKeys ==
    probe.done => SameKeysOwnSignature

\* for every X that does not itself end with a slash the requests for X and
\* X/ do have the same keys and origin URL
OneSlashStripped ==
    (probe.done /\ NoTrailingSlash(probe.path)) => SameKeysOwnSignature

\* C32: cat.jpg/ and cat.jpg// were requested: the first derives the keys
\* and the URL of cat.jpg, the second those of cat.jpg/
C32_Witness ==
    /\ probe.done
    /\ probe.path = <<"cat.jpg", "/">>
    /\ ~probe.signedWithSlash
    /\ probe.plain.err = 0
    /\ probe.plain.MediaPath = catJpg
    /\ probe.slash.MediaPath = <<"cat.jpg", "/">>
    /\ probe.plain.loaderKey = Sha256Hash(catJpg)
    /\ probe.slash.loaderKey = Sha256Hash(<<"cat.jpg", "/">>)
    /\ probe.plain.resultKey # probe.slash.resultKey
    /\ probe.slash.url = baseURL \o <<"cat.jpg", "/">>

\* ------------------------------------------------------------------------
\* the three tiers (SpecTiers): safe mode, both caches enabled; a transform
\* and a metadata request for the same mediaPath and query, whose result
\* keys are the same string
\* ------------------------------------------------------------------------

InitTiers ==
    InitServer("tiers", {c \in Configs : /\ c.Secret = "s"
                                         /\ ~c.EnableUnsafe
                                         /\ c.EnableLoaderCache
                                         /\ c.EnableResultCache})

SpecTiers == InitTiers /\ [][Next]_vars

\* some request of the given kinds takes a step from one of the given places
StepOf(kinds, pcs) ==
    \E i \in Slots : /\ req[i].kind \in kinds
                     /\ req[i].pc \in pcs
                     /\ req'[i] # req[i]

\* request i becomes a hit in this step, on the entry of its key in files
HitsIn(i, files) ==
    (~req[i].hit /\ req'[i].hit) =>
        /\ ResultKey(req[i]) \in DOMAIN files
        /\ req'[i].out = files[ResultKey(req[i])]

\* every file of the tier was put there by a request of the given kinds:
\* its key is the key of one that called Put
KeysPutBy(files, kinds, putStep, Key(_)) ==
    \A k \in DOMAIN files :
        \E i \in Slots : /\ req[i].kind \in kinds
                         /\ StepsAt(req[i].steps, putStep) # {}
                         /\ Key(req[i]) = k

\* C33: the result tier is written only by the Put of a transform request,
\* the metadata tier only by the Put of a metadata request, the loader tier
\* only by the loader's Put; a transform request hits only on the entry of
\* its key in the result tier and a metadata request only on the one in the
\* metadata tier, so neither is served an entry of the other kind or of the
\* loader tier
C33_TiersIsolated ==
    /\ [](/\ KeysPutBy(resultCache, {<<"media">>}, "cachePut", ResultKey)
          /\ KeysPutBy(metadataCache, {<<"metadata">>}, "cachePut", ResultKey)
          /\ KeysPutBy(loaderCache, Kinds, "loaderPut", LoaderKey))
    /\ [][/\ resultCache' # resultCache
              => StepOf({<<"media">>}, {"cachePut", "cacheWrite"})
          /\ metadataCache' # metadataCache
              => StepOf({<<"metadata">>}, {"cachePut", "cacheWrite"})
          /\ loaderCache' # loaderCache
              => StepOf(Kinds, {"loaderPut", "loaderWrite"})
          /\ \A i \in Slots :
                 /\ req[i].kind = <<"media">> => HitsIn(i, resultCache)
                 /\ req[i].kind = <<"metadata">> => HitsIn(i, metadataCache)]_vars

\* C33: a metadata request arrived after a transform request for the same
\* mediaPath and query had stored its result under the same key string; it
\* missed, took the origin bytes from the loader tier, ran the engine and
\* stored its own entry in the metadata tier
C33_Witness ==
    \E i, j \in Slots :
        /\ req[i].kind = <<"media">> /\ req[j].kind = <<"metadata">>
        /\ ResultKey(req[i]) = ResultKey(req[j])
        /\ i \in req[j].before
        /\ req[i].status = 200 /\ ~req[i].hit
        /\ req[j].status = 200 /\ ~req[j].hit /\ req[j].engine /\ req[j].gets = 0
        /\ resultCache[ResultKey(req[i])] = req[i].out
        /\ metadataCache[ResultKey(req[j])] = req[j].out
        /\ req[j].body # req[i].out

\* ------------------------------------------------------------------------
\* the throttle, request by request (SpecThrottleLive): the clients of the
\* model send one request each; the handler tokens are fewer than the
\* clients, so that requests wait in the backlog
\* ------------------------------------------------------------------------

ThrottleClients == 1..(Concurrency + 1)

\* a deferred function that runs on return only
TokensAfterExitOnReturn(tokens, how) == IF how = "return" THEN tokens + 1 ELSE tokens

\* the channel tokens after next.ServeHTTP was left by return or by panic:
\* the deferred function puts the token back either way
TokensAfterExit(tokens, how) == tokens + 1

\* th[i].pc: where request i is in the middleware; status: what the
\* middleware answered (0: nothing); how: how the handler was left;
\* full: no handler token was free when it took its backlog token
InitThrottleLive ==
    InitPure("throttlelive",
             {[tokens |-> Concurrency, backlogTokens |-> BacklogCapacity(Concurrency),
               th |-> [i \in ThrottleClients |->
                          [pc |-> "idle", status |-> 0, how |-> "", full |-> FALSE]]]})

\* the outer select: a context already done or no backlog token left is
\* answered 429; otherwise the request takes a backlog token and waits
LiveArrive(i) ==
    /\ scope = "throttlelive"
    /\ probe.th[i].pc = "idle"
    /\ \E ctxDone \in BOOLEAN :
          probe' =
             IF ctxDone \/ probe.backlogTokens = 0
             THEN [probe EXCEPT !.th[i].pc = "done", !.th[i].status = 429]
             ELSE [probe EXCEPT !.backlogTokens = @ - 1,
                                !.th[i].pc = "waiting",
                                !.th[i].full = (probe.tokens = 0)]
    /\ UNCHANGED <<config, scope, loaderCache, metadataCache, resultCache, req>>

\* the inner select, case tok := <-t.tokens: the request enters
\* next.ServeHTTP
LiveAdmit(i) ==
    /\ scope = "throttlelive"
    /\ probe.th[i].pc = "waiting"
    /\ probe.tokens > 0
    /\ probe' = [probe EXCEPT !.tokens = @ - 1, !.th[i].pc = "executing"]
    /\ UNCHANGED <<config, scope, loaderCache, metadataCache, resultCache, req>>

\* the inner select, case <-timer.C: the BacklogTimeout has passed, 429
LiveTimeout(i) ==
    /\ scope = "throttlelive"
    /\ probe.th[i].pc = "waiting"
    /\ probe' = [probe EXCEPT !.th[i].pc = "leaving", !.th[i].status = 429,
                              !.th[i].how = "timeout"]
    /\ UNCHANGED <<config, scope, loaderCache, metadataCache, resultCache, req>>

\* the inner select, case <-ctx.Done(): the client has gone, 429
LiveCancel(i) ==
    /\ scope = "throttlelive"
    /\ probe.th[i].pc = "waiting"
    /\ probe' = [probe EXCEPT !.th[i].pc = "leaving", !.th[i].status = 429,
                              !.th[i].how = "cancelled"]
    /\ UNCHANGED <<config, scope, loaderCache, metadataCache, resultCache, req>>

\* next.ServeHTTP is left, by return or by a panic of the handler, and the
\* deferred function of the inner select runs
LiveHandlerExit(i) ==
    /\ scope = "throttlelive"
    /\ probe.th[i].pc = "executing"
    /\ \E how \in {"return", "panic"} :
          probe' = [probe EXCEPT !.tokens = TokensAfterExit(@, how),
                                 !.th[i].pc = "leaving", !.th[i].how = how]
    /\ UNCHANGED <<config, scope, loaderCache, metadataCache, resultCache, req>>

\* the deferred function of the outer select: the backlog token goes back
LiveLeave(i) ==
    /\ scope = "throttlelive"
    /\ probe.th[i].pc = "leaving"
    /\ probe' = [probe EXCEPT !.backlogTokens = @ + 1, !.th[i].pc = "done"]
    /\ UNCHANGED <<config, scope, loaderCache, metadataCache, resultCache, req>>

NextThrottleLive ==
    \E i \in ThrottleClients :
        \/ LiveArrive(i)
        \/ LiveAdmit(i)
        \/ LiveTimeout(i)
        \/ LiveCancel(i)
        \/ LiveHandlerExit(i)
        \/ LiveLeave(i)

\* the timer of a waiting request fires when its time has passed, an
\* admitted handler terminates, and a deferred function runs
SpecThrottleLive ==
    /\ InitThrottleLive
    /\ [][NextThrottleLive]_vars
    /\ \A i \in ThrottleClients :
           /\ WF_vars(LiveTimeout(i))
           /\ WF_vars(LiveHandlerExit(i))
           /\ WF_vars(LiveLeave(i))

\* the clients whose request is at one of the given places
ClientsAt(pcs) == {i \in ThrottleClients : probe.th[i].pc \in pcs}

\* C34: a request waiting in the backlog is eventually admitted or answered
\* 429 (timer or context), and with terminating handlers every request
\* leaves the middleware; the handler tokens out are exactly those of the
\* requests in a handler, whether handlers returned or panicked, and the
\* backlog tokens out exactly those of the requests inside the middleware
C34_BacklogProgress ==
    /\ [](/\ probe.tokens = Concurrency - Cardinality(ClientsAt({"executing"}))
          /\ probe.backlogTokens =
                 BacklogCapacity(Concurrency)
                 - Cardinality(ClientsAt({"waiting", "executing", "leaving"}))
          /\ \A i \in ThrottleClients :
                 probe.th[i].how \in {"timeout", "cancelled"} => probe.th[i].status = 429)
    /\ \A i \in ThrottleClients :
           /\ (probe.th[i].pc = "waiting")
                  ~> (\/ probe.th[i].pc = "executing"
                      \/ probe.th[i].status = 429)
           /\ (probe.th[i].pc \in {"waiting", "executing"}) ~> (probe.th[i].pc = "done")
    /\ <>[](ClientsAt({"waiting", "executing", "leaving"}) = {}
            /\ probe.tokens = Concurrency
            /\ probe.backlogTokens = BacklogCapacity(Concurrency))

\* C34: a request that found every handler taken waited and was answered
\* 429 by its timer; a handler that panicked has given its token back
C34_Witness ==
    \E i, j \in ThrottleClients :
        /\ probe.th[i].pc = "done" /\ probe.th[i].full
        /\ probe.th[i].how = "timeout" /\ probe.th[i].status = 429
        /\ probe.th[j].pc = "done" /\ probe.th[j].how = "panic"
        /\ probe.tokens = Concurrency - Cardinality(ClientsAt({"executing"}))

\* ------------------------------------------------------------------------
\* requests rejected in the prelude (SpecOrder)
\* ------------------------------------------------------------------------

\* the handler of r has run getRequestInfo, and r's signature is not the
\* one over its URL or its query does not decode
RejectedInPrelude(r) ==
    /\ r.steps # <<>>
    /\ \/ ~config.EnableUnsafe /\ ~SignedAsReceived(r)
       \/ DecodeFails(r)

\* C35: a request with a bad signature (in safe mode) or a query that does
\* not decode is over after getRequestInfo: it has read no cache, issued no
\* origin GET and not run the engine, and the step of its handler leaves all
\* three caches as they were
C35_RejectedTouchesNothing ==
    /\ [](\A i \in Slots :
             RejectedInPrelude(req[i]) =>
                 /\ req[i].pc = "done"
                 /\ req[i].err \in {400, 403}
                 /\ \A w \in WorkSteps : StepsAt(req[i].steps, w) = {}
                 /\ req[i].gets = 0 /\ ~req[i].engine /\ ~req[i].hit
                 /\ ~req[i].fetched)
    /\ [][\A i \in Slots :
             (req'[i] # req[i] /\ req[i].pc # "idle" /\ req'[i].err \in {400, 403})
                 => UNCHANGED <<loaderCache, metadataCache, resultCache>>]_vars

\* C35: one request was rejected for its signature and one for its query;
\* each is over after its prelude and no cache holds anything
C35_Witness ==
    \E i, j \in Slots :
        /\ req[i].pc = "done" /\ req[i].err = 403 /\ req[i].status # 0
        /\ req[j].pc = "done" /\ req[j].err = 400 /\ req[j].status # 0
        /\ req[i].steps = <<"signature", "response">>
        /\ req[j].steps = <<"signature", "decode", "response">>
        /\ DOMAIN loaderCache = {} /\ DOMAIN resultCache = {}
        /\ DOMAIN metadataCache = {}

\* ------------------------------------------------------------------------
\* requests served from the result / metadata tier (SpecTiers)
\* ------------------------------------------------------------------------

\* the steps of a handler after the Get on its own tier
BeyondOwnTier == WorkSteps \ {"cacheGet"}

\* C36: a request whose Get on its result (metadata) tier finds the entry
\* goes to no other tier, to no origin and to no engine: its only cache
\* step is that one Get, it is over in the step that hit, and that step
\* leaves the loader, metadata and result tiers unchanged
C36_HitTouchesNothing ==
    /\ [](\A i \in Slots :
             req[i].hit =>
                 /\ req[i].pc = "done"
                 /\ Cardinality(StepsAt(req[i].steps, "cacheGet")) = 1
                 /\ \A w \in BeyondOwnTier : StepsAt(req[i].steps, w) = {}
                 /\ req[i].gets = 0 /\ ~req[i].engine /\ ~req[i].fetched
                 /\ req[i].imageBytes = <<>>)
    /\ [][\A i \in Slots :
             (req'[i].hit /\ ~req[i].hit)
                 => UNCHANGED <<loaderCache, metadataCache, resultCache>>]_vars

\* C36: a request was answered 200 from the entry an earlier request of its
\* kind stored in its tier, while the loader tier holds the original
C36_Witness ==
    \E i, k \in Slots :
        /\ k \in req[i].before /\ req[k].kind = req[i].kind
        /\ StepsAt(req[k].steps, "cacheWrite") # {}
        /\ req[i].hit /\ req[i].status = 200
        /\ req[i].steps = <<"signature", "decode", "cacheGet", "response">>
        /\ LoaderKey(req[i]) \in DOMAIN loaderCache
        /\ ResultKey(req[i]) \in DOMAIN (IF TierOf(req[i].kind) = "result"
                                          THEN resultCache ELSE metadataCache)

\* ------------------------------------------------------------------------
\* what handleTransformRequest unframes (Spec)
\* ------------------------------------------------------------------------

\* the blob fits getContentTypeAndData: four bytes of length, then at least
\* as many bytes as they announce
Unframable(blob) == ~getContentTypeAndData(blob).panic

\* C37 as stated: whatever GetCachedOrFetch hands the transform handler, the
\* blob it unframes is well formed, and every transform request that passed
\* the prelude and is over got an HTTP response
C37_UnframingInBounds ==
    \A i \in Slots :
        (req[i].kind = <<"media">> /\ req[i].pc = "done"
                                   /\ StepsAt(req[i].steps, "cacheGet") # {})
            => /\ Unframable(req[i].out)
               /\ ~req[i].panicked
               /\ req[i].status # 0

\* C37: the origin GET of a transform request failed, GetCachedOrFetch gave
\* back the nil blob with the error, and the handler panicked on unframing
\* it: no response was written
C37_Witness ==
    \E i \in Slots :
        /\ req[i].kind = <<"media">> /\ req[i].pc = "done"
        /\ req[i].gets = 1 /\ ~req[i].fetched /\ ~req[i].hit
        /\ req[i].err = 500 /\ req[i].out = <<>>
        /\ ~Unframable(req[i].out)
        /\ req[i].panicked /\ req[i].status = 0

\* ------------------------------------------------------------------------
\* the active-requests gauge of prometheusMiddleware (Spec)
\* ------------------------------------------------------------------------

\* the requests the middleware has called activeRequests.Inc() for: it does
\* so on entry, below the throttle
Incremented == {i \in Slots : req[i].pc # "idle"}

\* the requests the middleware has called activeRequests.Dec() for: Dec is
\* the last statement after next.ServeHTTP, not deferred, so it runs when
\* the handler returns and is skipped when the handler panics
Decremented == {i \in Slots : req[i].pc = "done" /\ ~req[i].panicked}

\* the value of the gauge
activeRequests == Cardinality(Incremented) - Cardinality(Decremented)

\* C38 as stated: the gauge is the number of requests executing below the
\* metrics middleware: never negative, and 0 when no request is in flight
C38_GaugeCountsInFlight ==
    /\ activeRequests >= 0
    /\ activeRequests = Cardinality(InFlight)
    /\ InFlight = {} => activeRequests = 0

\* C38: a transform handler panicked, no request is in flight any more and
\* the gauge still counts the request
C38_Witness ==
    \E i \in Slots :
        /\ req[i].kind = <<"media">> /\ req[i].pc = "done" /\ req[i].panicked
        /\ InFlight = {}
        /\ activeRequests >= 1

\* ------------------------------------------------------------------------
\* the derived dimension of a thumbnail (SpecResize)
\* ------------------------------------------------------------------------

\* exactly one of resize.width and resize.height is positive, the other zero
OneDimensionGiven(resize) ==
    \/ resize.Width > 0 /\ resize.Height = 0
    \/ resize.Width = 0 /\ resize.Height > 0

\* C39 as stated: with one dimension given and the other zero, both
\* dimensions handed to ThumbnailWithSize are at least 1, for every source
\* whose width and height are at least 1
C39_DerivedDimensionPositive ==
    (/\ probe.done
     /\ OneDimensionGiven(probe.resize)
     /\ ImageWidth(probe.imageBytes) >= 1
     /\ ImageHeight(probe.imageBytes) >= 1)
        => probe.target.width >= 1 /\ probe.target.height >= 1

\* C39: for a 3x2 source and resize.width=1 without a height the height
\* computed is 1 * 2 / 3 = 0
C39_Witness ==
    /\ probe.done
    /\ probe.imageBytes = pngSmall
    /\ ImageWidth(probe.imageBytes) = 3 /\ ImageHeight(probe.imageBytes) = 2
    /\ probe.resize.Width = 1 /\ probe.resize.Height = 0
    /\ probe.target = [width |-> 1, height |-> 0]

====
